---------------------------- MODULE Spec2Model ----------------------------
(***************************************************************************)
(* A model of the song discovery pipeline of Shazuno: the paginated        *)
(* collector (lib/suno.ts), the time-bounded cache in front of it          *)
(* (services/sunoService.ts) and the hook that loads songs for the UI      *)
(* (hooks/useSunoSongs.ts).                                                *)
(*                                                                         *)
(* The program runs on one event loop.  An action of the model is one      *)
(* task of that loop: a call made by the UI, the arrival of one page       *)
(* response (with everything that runs synchronously and in microtasks     *)
(* after it, up to the next request or the caller's continuation), a       *)
(* timer firing, or the clock advancing.                                   *)
(***************************************************************************)
EXTENDS Integers, Sequences, FiniteSets, TLC

VARIABLES
    now,        \* Date.now(), in milliseconds
    events,     \* how many calls and clock advances the environment has made
    runs,       \* the activations of fetchAllSunoSongs, in start order
    calls,      \* the calls of sunoService.fetchUserSongs, in call order
    cache,      \* sunoService.cache: normalized username -> record
    evicted,    \* the keys whose record clearCache removed and that
                \* fetchUserSongs has not been called for since
    username,   \* useSunoSongs: the username state
    timer,      \* useSunoSongs: deadline of the pending debounce timer, -1 if none
    songs,      \* useSunoSongs: the songs state
    isLoading,  \* useSunoSongs: the isLoading state
    error,      \* useSunoSongs: the error state ("null" models null)
    loads,      \* useSunoSongs: the runs of its loadSongs, in order, each
                \* with the number of its setError(errorMessage) calls and
                \* the place of its latest setSongs call among all of them
    changes,    \* useSunoSongs: the values the username state has taken,
                \* each with the time it was set
    input,      \* the arguments of a call of a pure function
    output,     \* <<what that call returned>>, <<>> before it has
    searchQuery,          \* useSongSearch: the searchQuery state
    deferredSearchQuery,  \* useSongSearch: the committed useDeferredValue
    memoizedResults,      \* useSongSearch: the committed useMemo value
    effectPending,        \* useSongSearch: the effect of the last commit
                          \* has not run yet
    transitionQueue,      \* useSongSearch: setSearchResults updates that
                          \* wait for a transition render
    searchResults,        \* useSongSearch: the searchResults state
    clearCalls, \* useSongSearch: how many times clearSearch was called
    sinceClear, \* useSongSearch: clearSearch was called, and setSearchQuery
                \* has not been called with a non-blank query since
    isOpen,      \* useModal: the isOpen state
    data,        \* useModal: the data state
    resetTimers, \* useModal: the times at which the pending setTimeout
                 \* callbacks of close are due
    lastOpen     \* useModal: the value the last call of open was passed

vars == <<now, events, runs, calls, cache, evicted,
          username, timer, songs, isLoading, error, loads, changes,
          input, output, searchQuery, deferredSearchQuery, memoizedResults,
          effectPending, transitionQueue, searchResults, clearCalls, sinceClear,
          isOpen, data, resetTimers, lastOpen>>

clockVars == <<now, events>>
serviceVars == <<calls, cache>>
hookVars == <<username, timer, songs, isLoading, error, loads, changes>>
pureVars == <<input, output>>
searchVars == <<searchQuery, deferredSearchQuery, memoizedResults,
                effectPending, transitionQueue, searchResults, clearCalls, sinceClear>>
rankVars == <<pureVars, searchVars>>
modalVars == <<isOpen, data, resetTimers, lastOpen>>

----------------------------------------------------------------------------
(* Bounds of the model *)

\* non-empty pages the remote feed delivers to one direct collection run
MaxDataPages == 2
\* what the environment of the service does: fetchUserSongs calls,
\* clearCache calls and clock advances, together
MaxEvents == 3
\* what the environment of the hook does: username changes and clock
\* advances, together
MaxHookEvents == 4
\* characters of the lyrics, and of the query, given to calculateSimilarity
MaxLyricsLen == 4
MaxQueryLen == 3
\* characters of the string given to normalize
MaxInputLen == 5
\* words of the query in which words occur again
MaxQueryWords == 3
\* songs of the longest corpus given to the ranking, and of the patterns
\* the corpora are made of
MaxCorpusLen == 12
MaxPatternLen == 3
\* pages the feed that never runs dry is followed for
MaxFeedPages == 12
\* what the user of useSongSearch does: query changes, clearSearch calls and
\* new songs arrays, together
MaxSearchEvents == 4

----------------------------------------------------------------------------
(* Program constants *)

MAX_CONSECUTIVE_EMPTY_PAGES == 10

cacheTimeout == 5 * 60 * 1000

USERNAME_DEBOUNCE_MS == 500

MAX_SEARCH_RESULTS == 10

GenericLoadError == "Failed to load songs. Please try again."

----------------------------------------------------------------------------
(* Strings.  A string is a sequence of one-character strings, so that      *)
(* trim() and toLowerCase() are computed and not assumed.                  *)

Whitespace == {" ", "\t"}

LowerChar(c) ==
    CASE c = "D" -> "d"
      [] c = "X" -> "x"
      [] c = "A" -> "a"
      [] c = "B" -> "b"
      [] OTHER   -> c

ToLowerCase(s) == [i \in 1..Len(s) |-> LowerChar(s[i])]

RECURSIVE TrimStart(_)
TrimStart(s) ==
    IF s # <<>> /\ Head(s) \in Whitespace THEN TrimStart(Tail(s)) ELSE s

RECURSIVE TrimEnd(_)
TrimEnd(s) ==
    IF s # <<>> /\ s[Len(s)] \in Whitespace
    THEN TrimEnd(SubSeq(s, 1, Len(s) - 1))
    ELSE s

Trim(s) == TrimEnd(TrimStart(s))

\* mutant: the username is lower-cased but not trimmed
NormalizeUsernameNoTrim(u) == ToLowerCase(u)

\* username.trim().toLowerCase()
NormalizeUsername(u) == ToLowerCase(Trim(u))

----------------------------------------------------------------------------
(* The remote feed: what one page request can come back with. *)

ClipIds == {"", "a", "b"}        \* "" is a clip without an id
ClipTitles == {"t1", "t2"}

Clips ==
    {[id |-> "", title |-> "t1"]}
    \cup [id : {"a", "b"}, title : ClipTitles]

ClipPages ==
    {<<c>> : c \in Clips} \cup {<<c, d>> : c \in Clips, d \in Clips}

\* status: "reject" (fetch itself rejects: a transport error), "notok"
\* (response.ok is false) or "ok".  body, of an ok response: "badjson"
\* (response.json() rejects), "null", "noclips" (an object without the clips
\* field), "notarray" (clips is not an array) or "array".
Resp(status, body, clips) == [status |-> status, body |-> body, clips |-> clips]

FailedResponses ==
    { Resp("notok", "null", <<>>),
      Resp("ok", "null", <<>>),
      Resp("ok", "noclips", <<>>) }

ThrowingResponses ==
    { Resp("reject", "null", <<>>),
      Resp("ok", "badjson", <<>>) }

EmptyResponses ==
    FailedResponses
    \cup { Resp("ok", "notarray", <<>>), Resp("ok", "array", <<>>) }

DataResponses == {Resp("ok", "array", p) : p \in ClipPages}

\* the response carries at least one clip
DeliversClips(resp) == resp \in DataResponses

Responses == EmptyResponses \cup ThrowingResponses \cup DataResponses

----------------------------------------------------------------------------
(* lib/suno.ts *)

\* fetchSunoPage: the promise rejects, or resolves to null or to the parsed body
FetchThrows(resp) ==
    \/ resp.status = "reject"
    \/ resp.status = "ok" /\ resp.body = "badjson"

FetchIsNull(resp) ==
    \/ resp.status = "notok"
    \/ resp.status = "ok" /\ resp.body = "null"

\* !data || !('clips' in data)
NoClipsField(resp) == FetchIsNull(resp) \/ resp.body = "noclips"

\* Array.isArray(data.clips) ? data.clips : []
PageClips(resp) == IF resp.body = "array" THEN resp.clips ELSE <<>>

mapClipToSong(clip) ==
    [id |-> clip.id,
     title |-> IF clip.title = "" THEN "Untitled" ELSE clip.title,
     matchScore |-> 0]

\* A JavaScript Map<string, Song> is the sequence of its values in insertion
\* order; the key of a value is its id.
MapHas(m, k) == \E i \in 1..Len(m) : m[i].id = k

\* mutant: set() appends even when the key is present
MapSetAppend(m, k, v) == Append(m, v)

\* mutant: set() keeps the value of a key that is present
MapSetKeepFirst(m, k, v) == IF MapHas(m, k) THEN m ELSE Append(m, v)

\* mutant: set() moves a key that is present to the end
MapSetMovesToEnd(m, k, v) ==
    Append(SelectSeq(m, LAMBDA song : song.id # k), v)

MapSet(m, k, v) ==
    IF MapHas(m, k)
    THEN [i \in 1..Len(m) |-> IF m[i].id = k THEN v ELSE m[i]]
    ELSE Append(m, v)

\* pageClips.filter(clip => clip.id).forEach(clip => songsMap.set(...))
RECURSIVE MergeClips(_, _)
MergeClips(m, clips) ==
    IF clips = <<>> THEN m
    ELSE LET c == Head(clips) IN
         MergeClips(IF c.id # "" THEN MapSet(m, c.id, mapClipToSong(c)) ELSE m,
                    Tail(clips))

\* mutant: the loop runs one page too long
LoopContinuesOffByOne(emptyPages) == emptyPages <= MAX_CONSECUTIVE_EMPTY_PAGES

\* while (emptyPages < MAX_CONSECUTIVE_EMPTY_PAGES)
LoopContinues(emptyPages) == emptyPages < MAX_CONSECUTIVE_EMPTY_PAGES


\* a page counts as empty: lines 63 and 71
IsEmptyPage(resp) == NoClipsField(resp) \/ Len(PageClips(resp)) = 0

NextPageSkips(page) == page + 2

\* page += 1: lines 65, 73 and 78
NextPage(page) == page + 1

\* mutant: the counter is not reset by a page with clips
NextEmptyPagesNoReset(emptyPages, resp) == emptyPages + 1

\* mutant: only a page with a clip that has an id resets the counter
NextEmptyPagesNeedsId(emptyPages, resp) ==
    IF \E i \in 1..Len(PageClips(resp)) : PageClips(resp)[i].id # ""
    THEN 0 ELSE emptyPages + 1

\* the counter after a page: lines 64, 72 and 77
NextEmptyPages(emptyPages, resp) ==
    IF IsEmptyPage(resp) THEN emptyPages + 1 ELSE 0

\* the map after a page: lines 81-85
NextSongsMap(m, resp) ==
    IF IsEmptyPage(resp) THEN m ELSE MergeClips(m, PageClips(resp))

ReportsProgressOnlyNew(run, resp) ==
    run.hasProgress /\ Len(NextSongsMap(run.songsMap, resp)) > Len(run.songsMap)

\* onProgress is called after a page: lines 88-90
ReportsProgress(run, resp) == run.hasProgress /\ ~IsEmptyPage(resp)

\* Array.from(songsMap.values())
MapValues(m) == m

\* The corpus as the specification describes it: an entry is appended when its
\* id is not empty and not yet present, and never changed afterwards.  History
\* variable of a run, not read by the program.
RECURSIVE AppendFirstSeen(_, _)
AppendFirstSeen(corpus, clips) ==
    IF clips = <<>> THEN corpus
    ELSE LET c == Head(clips) IN
         AppendFirstSeen(
             IF c.id # "" /\ ~MapHas(corpus, c.id)
             THEN Append(corpus, mapClipToSong(c)) ELSE corpus,
             Tail(clips))

\* The most recent delivery of each id, by id.  History variable of a run.
RECURSIVE RecordLastSeen(_, _)
RecordLastSeen(last, clips) ==
    IF clips = <<>> THEN last
    ELSE LET c == Head(clips) IN
         RecordLastSeen(
             IF c.id # "" THEN [last EXCEPT ![c.id] = mapClipToSong(c)] ELSE last,
             Tail(clips))

RepeatsAnId(clips) ==
    \E i, j \in 1..Len(clips) :
        i # j /\ clips[i].id # "" /\ clips[i].id = clips[j].id

NoSong == [id |-> "", title |-> "", matchScore |-> 0]

\* fetchAllSunoSongs up to its first await: lines 55-61
NewRun(caller, call, name, hasProgress) ==
    [caller       |-> caller,       \* "direct", "service" or "hook"
     call         |-> call,         \* the fetchUserSongs call awaiting it, or 0
     username     |-> NormalizeUsername(name),
     hasProgress  |-> hasProgress,  \* an onProgress callback was passed
     page         |-> 0,
     emptyPages   |-> 0,
     songsMap     |-> <<>>,
     status       |-> "fetching",   \* "fetching", "returned" or "rejected"
     result       |-> <<>>,
     reqLog       |-> <<0>>,        \* the page numbers requested so far
     progress     |-> 0,            \* onProgress calls so far
     lastProgress |-> <<>>,         \* the array of the last onProgress call
     progressPage |-> -1,           \* the page the last onProgress call
                                    \* followed
     processed    |-> 0,            \* pages whose response was processed
     dataPages    |-> 0,            \* of these, pages that delivered clips
     trailingEmpty |-> 0,           \* empty or absent pages since the last
                                    \* page that delivered clips
     firstSeen    |-> <<>>,
     lastSeen     |-> [i \in ClipIds \ {""} |-> NoSong],
     finishedAt   |-> -1,
     repeatInPage |-> FALSE,        \* some page held the same id twice
     failure      |-> "none"]       \* what rejected it: "transport" (fetch
                                    \* rejected) or "parse" (json() rejected)

\* One iteration of the loop of fetchAllSunoSongs, from the response of the
\* awaited request to the next request, the return or the rejection.
RunStep(run, resp) ==
    IF FetchThrows(resp)
    THEN [run EXCEPT !.status = "rejected", !.finishedAt = now,
                     !.failure = IF resp.status = "reject"
                                 THEN "transport" ELSE "parse"]
    ELSE LET emptyPages1 == NextEmptyPages(run.emptyPages, resp)
             page1 == NextPage(run.page)
             map1 == NextSongsMap(run.songsMap, resp)
             more == LoopContinues(emptyPages1)
         IN [run EXCEPT
                !.page = page1,
                !.emptyPages = emptyPages1,
                !.songsMap = map1,
                !.progress = IF ReportsProgress(run, resp) THEN @ + 1 ELSE @,
                !.lastProgress =
                    IF ReportsProgress(run, resp) THEN MapValues(map1) ELSE @,
                !.progressPage =
                    IF ReportsProgress(run, resp) THEN run.page ELSE @,
                !.status = IF more THEN "fetching" ELSE "returned",
                !.result = IF more THEN @ ELSE MapValues(map1),
                !.reqLog = IF more THEN Append(@, page1) ELSE @,
                !.finishedAt = IF more THEN @ ELSE now,
                !.processed = @ + 1,
                !.dataPages = IF DeliversClips(resp) THEN @ + 1 ELSE @,
                !.trailingEmpty = IF DeliversClips(resp) THEN 0 ELSE @ + 1,
                !.repeatInPage = @ \/ RepeatsAnId(PageClips(resp)),
                !.firstSeen = AppendFirstSeen(@, PageClips(resp)),
                !.lastSeen = RecordLastSeen(@, PageClips(resp))]

InFlight == {r \in 1..Len(runs) : runs[r].status = "fetching"}

----------------------------------------------------------------------------
(* A direct call of fetchAllSunoSongs, with or without onProgress. *)

DirectUsernames == {<<"d">>}

StartCollect(name, hasProgress) ==
    /\ runs = <<>>
    /\ runs' = Append(runs, NewRun("direct", 0, name, hasProgress))
    /\ UNCHANGED <<clockVars, serviceVars, hookVars, rankVars, evicted,
                   modalVars>>

\* The response of the awaited page request of a direct run arrives.
CollectPage(r, resp) ==
    /\ r \in InFlight
    /\ runs[r].caller = "direct"
    /\ DeliversClips(resp) => runs[r].dataPages < MaxDataPages
    /\ runs' = [runs EXCEPT ![r] = RunStep(runs[r], resp)]
    /\ UNCHANGED <<clockVars, serviceVars, hookVars, rankVars, evicted,
                   modalVars>>

----------------------------------------------------------------------------
(* A direct call of fetchAllSunoSongs against one of two feeds: the feed of *)
(* artist "e" has a clip on every page, however far the run goes; the feed  *)
(* of artist "d" has clips on a bounded number of pages, anywhere, and      *)
(* every other page of it is empty in one of the five ways.  No request     *)
(* fails with an exception.                                                 *)

FeedUsernames == {<<"d">>, <<"e">>}

FeedIsEndless(name) == name = <<"e">>

\* what the feed of the run can answer to its next request
FeedResponses(run) ==
    IF FeedIsEndless(run.username)
    THEN {resp \in DataResponses : run.page < MaxFeedPages}
    ELSE EmptyResponses
         \cup {resp \in DataResponses : run.dataPages < MaxDataPages}

StartFeed(name) ==
    /\ runs = <<>>
    /\ runs' = Append(runs, NewRun("direct", 0, name, FALSE))
    /\ UNCHANGED <<clockVars, serviceVars, hookVars, rankVars, evicted,
                   modalVars>>

\* The response of the awaited page request arrives.
FeedPage(r) ==
    /\ r \in InFlight
    /\ runs[r].caller = "direct"
    /\ \E resp \in FeedResponses(runs[r]) :
           runs' = [runs EXCEPT ![r] = RunStep(runs[r], resp)]
    /\ UNCHANGED <<clockVars, serviceVars, hookVars, rankVars, evicted,
                   modalVars>>

----------------------------------------------------------------------------
(* The environment of the service *)

ServiceUsernames == { <<"D">>, <<" ", "d", "\t">>, <<"x">>, <<" ">> }

ServicePages == { << [id |-> "a", title |-> "t1"] >> }

ServiceResponses ==
    { Resp("notok", "null", <<>>),
      Resp("ok", "array", <<>>),
      Resp("reject", "null", <<>>) }
    \cup {Resp("ok", "array", p) : p \in ServicePages}

\* the catalog the service's runs read holds its clips on the first page
ServiceFeedHasClips(page) == page = 0

\* and a request of its runs throws, if at all, on one of the first two pages
ServiceFeedThrows(page) == page <= 1

\* no request throws while two components call the service
OverlapResponses == {resp \in ServiceResponses : ~FetchThrows(resp)}

ServiceTicks == {cacheTimeout - 1, cacheTimeout}

\* The components that call the service; each awaits its call before it
\* makes another.
Callers == {"c1", "c2"}

\* the single coordinator of the specification
Coordinator == "c1"

OverlapUsernames == { <<"D">>, <<" ", "d", "\t">> }

----------------------------------------------------------------------------
(* services/sunoService.ts *)

\* The cache is a Map from key to record; it is modelled as the set of its
\* records, each carrying its key.  by is a history field: the call whose
\* continuation stored the record.
CacheHas(c, k) == \E rec \in c : rec.key = k
CacheGet(c, k) == CHOOSE rec \in c : rec.key = k
CacheSet(c, k, value, timestamp, by) ==
    {rec \in c : rec.key # k}
    \cup {[key |-> k, songs |-> value, timestamp |-> timestamp, by |-> by]}
CacheDelete(c, k) == {rec \in c : rec.key # k}

\* mutant: the username is used as the key as it was typed
CacheKeyAsTyped(name) == name

\* the key fetchUserSongs reads and writes: line 23
CacheKey(name) == NormalizeUsername(name)

ClearKeyAsTyped(name) == name

\* the key clearCache deletes: line 58
ClearKey(name) == NormalizeUsername(name)

\* mutant: a record exactly as old as the timeout still counts as fresh
IsFreshInclusive(rec, t) == t - rec.timestamp <= cacheTimeout

\* mutant: the comparison is the wrong way round
IsFreshInverted(rec, t) == t - rec.timestamp > cacheTimeout

\* cached && Date.now() - cached.timestamp < this.cacheTimeout
IsFresh(rec, t) == t - rec.timestamp < cacheTimeout

CacheHit(c, k, t) == CacheHas(c, k) /\ IsFresh(CacheGet(c, k), t)

NewCall(caller, name, hasProgress) ==
    [caller      |-> caller,        \* the component that made the call
     username    |-> name,
     key         |-> CacheKey(name),
     hasProgress |-> hasProgress,
     status      |-> "pending",     \* "pending", "resolved" or "rejected"
     result      |-> <<>>,
     error       |-> "",
     run         |-> 0,             \* the run it started, 0 if none
     progress    |-> 0,             \* calls of its onProgress so far
     at          |-> now]

\* sunoService.fetchUserSongs, up to its return or its await
FetchUserSongs(caller, name, hasProgress) ==
    /\ events < MaxEvents
    /\ \A c \in 1..Len(calls) :
          calls[c].caller = caller => calls[c].status # "pending"
    /\ LET call == NewCall(caller, name, hasProgress)
           key == call.key
       IN
       IF key = <<>>
       THEN /\ calls' = Append(calls, [call EXCEPT !.status = "resolved"])
            /\ UNCHANGED <<runs, cache>>
       ELSE IF CacheHit(cache, key, now)
       THEN /\ calls' = Append(calls,
                   [call EXCEPT !.status = "resolved",
                                !.result = CacheGet(cache, key).songs])
            /\ UNCHANGED <<runs, cache>>
       ELSE /\ runs' = Append(runs,
                   NewRun("service", Len(calls) + 1, key, hasProgress))
            /\ calls' = Append(calls, [call EXCEPT !.run = Len(runs) + 1])
            /\ UNCHANGED cache
    /\ evicted' = evicted \ {CacheKey(name)}
    /\ events' = events + 1
    /\ UNCHANGED <<now, hookVars, rankVars,
                   modalVars>>

\* The continuation of fetchUserSongs after its await: lines 39-49
CallAfterRun(call, run) ==
    CASE run.status = "returned" ->
            [call EXCEPT !.status = "resolved", !.result = run.result,
                         !.progress = run.progress]
      [] run.status = "rejected" ->
            [call EXCEPT !.status = "rejected", !.error = GenericLoadError,
                         !.progress = run.progress]
      [] OTHER -> [call EXCEPT !.progress = run.progress]

\* mutant: what was collected is stored even when the run rejected
CacheAfterRunAlways(c, call, run) ==
    IF run.status # "fetching"
    THEN CacheSet(c, call.key, MapValues(run.songsMap), now, run.call)
    ELSE c

\* mutant: each page's snapshot is stored as the collection goes on
CacheAfterRunEachPage(c, call, run) ==
    IF run.status # "rejected"
    THEN CacheSet(c, call.key, MapValues(run.songsMap), now, run.call)
    ELSE c

CacheAfterRun(c, call, run) ==
    IF run.status = "returned"
    THEN CacheSet(c, call.key, run.result, now, run.call)
    ELSE c

\* The response of the awaited page request of a run started by
\* fetchUserSongs arrives.
ServicePage(r, resp) ==
    /\ r \in InFlight
    /\ runs[r].caller = "service"
    /\ DeliversClips(resp) => ServiceFeedHasClips(runs[r].page)
    /\ FetchThrows(resp) => ServiceFeedThrows(runs[r].page)
    /\ LET run == RunStep(runs[r], resp)
           c == runs[r].call
       IN /\ runs' = [runs EXCEPT ![r] = run]
          /\ calls' = [calls EXCEPT ![c] = CallAfterRun(calls[c], run)]
          /\ cache' = CacheAfterRun(cache, calls[c], run)
    /\ UNCHANGED <<clockVars, hookVars, rankVars, evicted,
                   modalVars>>

\* sunoService.clearCache(username)
ClearCache(name) ==
    /\ events < MaxEvents
    /\ cache' = IF name # <<>>
                THEN CacheDelete(cache, ClearKey(name))
                ELSE {}
    /\ evicted' = evicted \cup {rec.key : rec \in cache \ cache'}
    /\ events' = events + 1
    /\ UNCHANGED <<now, runs, calls, hookVars, rankVars,
                   modalVars>>

\* sunoService.clearCache()
ClearCacheAll ==
    /\ events < MaxEvents
    /\ cache' = {}
    /\ evicted' = evicted \cup {rec.key : rec \in cache}
    /\ events' = events + 1
    /\ UNCHANGED <<now, runs, calls, hookVars, rankVars,
                   modalVars>>

\* Time passes.
Tick(d) ==
    /\ events < MaxEvents
    /\ now' = now + d
    /\ events' = events + 1
    /\ UNCHANGED <<runs, serviceVars, hookVars, rankVars, evicted,
                   modalVars>>

----------------------------------------------------------------------------
(* hooks/useModal.ts (part_014), as SearchSection uses it: the songs of the
   results open the modal, the modal's onClose closes it *)

MaxModalEvents == 5

\* the songs the modal is opened with
ModalData == {"song1", "song2"}

\* setTimeout(() => setData(null), 300)
ModalResetDelay == 300

ModalTicks == {ModalResetDelay - 1, ModalResetDelay}

\* useState(false), useState(null): lines 18-19
InitModal ==
    /\ isOpen = FALSE
    /\ data = "null"
    /\ resetTimers = {}
    /\ lastOpen = "null"

\* open(modalData): lines 21-24
Open(modalData) ==
    /\ events < MaxModalEvents
    /\ events' = events + 1
    /\ data' = modalData
    /\ isOpen' = TRUE
    /\ lastOpen' = modalData
    /\ UNCHANGED <<now, runs, serviceVars, evicted, hookVars, rankVars,
                   resetTimers>>

\* SearchSection renders the LyricsModal, whose onClose is close, only while
\* isOpen && data: SearchSection.tsx, lines 28-31
ModalRendered == isOpen /\ data # "null"

\* close(), called by the modal on display: lines 26-30
Close ==
    /\ ModalRendered
    /\ events < MaxModalEvents
    /\ events' = events + 1
    /\ isOpen' = FALSE
    /\ resetTimers' = resetTimers \cup {now + ModalResetDelay}
    /\ UNCHANGED <<now, runs, serviceVars, evicted, hookVars, rankVars,
                   data, lastOpen>>

\* The callback of a timeout of close runs: setData(null), line 29
ResetFires(due) ==
    /\ due \in resetTimers
    /\ now >= due
    /\ data' = "null"
    /\ resetTimers' = resetTimers \ {due}
    /\ UNCHANGED <<clockVars, runs, serviceVars, evicted, hookVars, rankVars,
                   isOpen, lastOpen>>

\* Time passes for the modal.
ModalTick(d) ==
    /\ events < MaxModalEvents
    /\ events' = events + 1
    /\ now' = now + d
    /\ UNCHANGED <<runs, serviceVars, evicted, hookVars, rankVars, modalVars>>

----------------------------------------------------------------------------
(* hooks/useSunoSongs.ts *)

HookUsernames == { <<"d">>, <<"x">>, <<" ">>, <<>> }

HookTicks == {USERNAME_DEBOUNCE_MS - 1, USERNAME_DEBOUNCE_MS}

\* the catalog the hook's runs read: as for the service
HookResponses == ServiceResponses

\* mutant: the catch block leaves the error state as it is
ErrorMessageNone(failure) == "null"

\* err instanceof Error ? err.message : 'Error loading songs'
ErrorMessage(failure) ==
    IF failure = "transport" THEN "Failed to fetch" ELSE "Unexpected token"

\* mutant: loadSongs is called without a delay
EffectTimerImmediate(name) == IF name # <<>> THEN now ELSE -1

\* The effect on [username, loadSongs], after its cleanup has cleared the
\* timer of the previous username: lines 170-181
EffectTimer(name) == IF name # <<>> THEN now + USERNAME_DEBOUNCE_MS ELSE -1

\* The component mounts with initialUsername and the effect runs once.
InitHook(initialUsername) ==
    /\ now = 0
    /\ events = 0
    /\ runs = <<>>
    /\ calls = <<>>
    /\ cache = {}
    /\ evicted = {}
    /\ username = initialUsername
    /\ timer = EffectTimer(initialUsername)
    /\ songs = <<>>
    /\ isLoading = FALSE
    /\ error = "null"
    /\ loads = <<>>
    /\ changes = <<[username |-> initialUsername, at |-> 0]>>
    /\ input = <<>>
    /\ output = <<>>
    /\ searchQuery = <<>>
    /\ deferredSearchQuery = <<>>
    /\ memoizedResults = <<>>
    /\ effectPending = FALSE
    /\ transitionQueue = <<>>
    /\ searchResults = <<>>
    /\ clearCalls = 0
    /\ sinceClear = FALSE
    /\ InitModal

\* mutant: every change of the username empties the songs
SongsAfterChangeCleared(name) == <<>>

\* the songs state after the effect of a new username: lines 171-179
SongsAfterChange(name) == IF name # <<>> THEN songs ELSE <<>>

\* The public loadSongs (updateUsername): setUsername, and the effect that
\* follows the render when the username has changed.
UpdateUsername(name) ==
    /\ events < MaxHookEvents
    /\ name # username
    /\ username' = name
    /\ timer' = EffectTimer(name)
    /\ songs' = SongsAfterChange(name)
    /\ error' = IF name # <<>> THEN error ELSE "null"
    /\ changes' = Append(changes, [username |-> name, at |-> now])
    /\ events' = events + 1
    /\ UNCHANGED <<now, runs, serviceVars, isLoading, loads, rankVars, evicted,
                   modalVars>>

\* how many times the loads have called setSongs
SetSongsCalls ==
    IF \A l \in 1..Len(loads) : loads[l].wrote = 0 THEN 0
    ELSE CHOOSE n \in {loads[l].wrote : l \in 1..Len(loads)} :
             \A l \in 1..Len(loads) : loads[l].wrote <= n

\* the page makes the load call setSongs: from the onProgress callback
\* (line 156), or with the corpus returned (line 160)
WritesSongs(r, run, resp) ==
    run.status = "returned" \/ ReportsProgress(runs[r], resp)

\* mutant: only the run started last may set the songs
SongsAfterPageOfLatest(r, run, resp) ==
    IF r # Len(runs) THEN songs
    ELSE IF run.status = "returned" THEN run.result
    ELSE IF ReportsProgress(runs[r], resp) THEN run.lastProgress
    ELSE songs

\* the songs state after the page of run r: lines 153-160
SongsAfterPage(r, run, resp) ==
    CASE run.status = "returned" -> run.result
      [] ReportsProgress(runs[r], resp) -> run.lastProgress
      [] OTHER -> songs

\* The debounce timer fires and calls the inner loadSongs(username), which
\* runs up to its await: lines 138-157
TimerFires ==
    /\ timer >= 0
    /\ now >= timer
    /\ timer' = -1
    /\ LET trimmedUsername == Trim(username) IN
       IF trimmedUsername = <<>>
       THEN /\ songs' = <<>>
            /\ error' = "null"
            /\ loads' = Append(loads,
                   [username |-> trimmedUsername, at |-> now, run |-> 0,
                    errors |-> 0, change |-> Len(changes),
                    wrote |-> SetSongsCalls + 1])
            /\ UNCHANGED <<runs, isLoading>>
       ELSE /\ isLoading' = TRUE
            /\ error' = "null"
            /\ runs' = Append(runs, NewRun("hook", 0, trimmedUsername, TRUE))
            /\ loads' = Append(loads,
                   [username |-> trimmedUsername, at |-> now,
                    run |-> Len(runs) + 1, errors |-> 0,
                    change |-> Len(changes), wrote |-> 0])
            /\ UNCHANGED songs
    /\ UNCHANGED <<clockVars, serviceVars, username, changes, rankVars, evicted,
                   modalVars>>

\* The response of the awaited page request of a run started by the hook
\* arrives: the onProgress callback, then the rest of loadSongs when the run
\* has ended: lines 153-166
HookPage(r, resp) ==
    /\ r \in InFlight
    /\ runs[r].caller = "hook"
    /\ DeliversClips(resp) => ServiceFeedHasClips(runs[r].page)
    /\ FetchThrows(resp) => ServiceFeedThrows(runs[r].page)
    /\ LET run == RunStep(runs[r], resp) IN
       /\ runs' = [runs EXCEPT ![r] = run]
       /\ songs' = SongsAfterPage(r, run, resp)
       /\ error' = IF run.status = "rejected"
                   THEN ErrorMessage(run.failure) ELSE error
       /\ loads' = [l \in 1..Len(loads) |->
                       IF loads[l].run # r THEN loads[l]
                       ELSE IF run.status = "rejected"
                       THEN [loads[l] EXCEPT !.errors = @ + 1]
                       ELSE IF WritesSongs(r, run, resp)
                       THEN [loads[l] EXCEPT !.wrote = SetSongsCalls + 1]
                       ELSE loads[l]]
       /\ isLoading' = IF run.status = "fetching" THEN isLoading ELSE FALSE
    /\ UNCHANGED <<clockVars, serviceVars, username, timer, changes, rankVars,
                   evicted,
                   modalVars>>

\* Time passes for the hook.
HookTick(d) ==
    /\ events < MaxHookEvents
    /\ now' = now + d
    /\ events' = events + 1
    /\ UNCHANGED <<runs, serviceVars, hookVars, rankVars, evicted,
                   modalVars>>

----------------------------------------------------------------------------
(* utils/similarity.ts *)

\* what \w matches, among the characters the model uses
WordChars == {"a", "b", "d", "x", "A", "B", "D", "X", "_"}

\* .replace(/\s+/g, ' '): every run of whitespace becomes one space
RECURSIVE CollapseWhitespace(_)
CollapseWhitespace(s) ==
    IF s = <<>> THEN <<>>
    ELSE IF Head(s) \in Whitespace
         THEN <<" ">> \o CollapseWhitespace(TrimStart(s))
         ELSE <<Head(s)>> \o CollapseWhitespace(Tail(s))

\* .replace(/[^\w\s]/g, ''): drop what is neither a word character nor
\* whitespace
RECURSIVE RemoveFormatting(_)
RemoveFormatting(s) ==
    IF s = <<>> THEN <<>>
    ELSE IF Head(s) \in WordChars \cup Whitespace
         THEN <<Head(s)>> \o RemoveFormatting(Tail(s))
         ELSE RemoveFormatting(Tail(s))

\* normalize: lines 2-8, in the order of the chain
normalize(str) == RemoveFormatting(CollapseWhitespace(Trim(ToLowerCase(str))))

\* s.split(/\s+/).filter(Boolean): the maximal runs of non-whitespace
RECURSIVE SplitFrom(_, _, _)
SplitFrom(s, word, words) ==
    IF s = <<>>
    THEN IF word = <<>> THEN words ELSE Append(words, word)
    ELSE IF Head(s) \in Whitespace
         THEN SplitFrom(Tail(s), <<>>,
                        IF word = <<>> THEN words ELSE Append(words, word))
         ELSE SplitFrom(Tail(s), Append(word, Head(s)), words)

SplitWords(s) == SplitFrom(s, <<>>, <<>>)

\* s1.includes(s2)
Includes(s1, s2) ==
    \E i \in 0..(Len(s1) - Len(s2)) : SubSeq(s1, i + 1, i + Len(s2)) = s2

\* A score is a number between 0 and 1; the model holds it as the number of
\* sixtieths, which is exact for every ratio of up to six query words and
\* for 0.9.
ScoreScale == 60
ExactMatchScore == ScoreScale                  \* 1.0, line 27
AllWordsScore == (9 * ScoreScale) \div 10      \* 0.9, line 40
Ratio(matchingWords, total) == (matchingWords * ScoreScale) \div total

\* mutant: a word of the query is counted once however often it occurs
MatchingWordsDistinct(queryWords, lyricsWords) ==
    Cardinality({queryWords[i] : i \in 1..Len(queryWords)} \cap lyricsWords)

\* the loop of lines 30-35
MatchingWords(queryWords, lyricsWords) ==
    Cardinality({i \in 1..Len(queryWords) : queryWords[i] \in lyricsWords})

ScoreForRatioPlain(matchingWords, total) == Ratio(matchingWords, total)

\* lines 37-43
ScoreForRatio(matchingWords, total) ==
    IF matchingWords = total THEN AllWordsScore
    ELSE Ratio(matchingWords, total)

\* calculateSimilarity: lines 11-44
calculateSimilarity(str1, str2) ==
    LET s1 == normalize(str1)
        s2 == normalize(str2)
    IN IF s1 = <<>> \/ s2 = <<>> THEN 0
       ELSE LET lyricsWords == {SplitWords(s1)[i] :
                                    i \in 1..Len(SplitWords(s1))}
                queryWords == SplitWords(s2)
            IN IF Len(queryWords) = 0 THEN 0
               ELSE IF Includes(s1, s2) THEN ExactMatchScore
               ELSE ScoreForRatio(MatchingWords(queryWords, lyricsWords),
                                  Len(queryWords))

----------------------------------------------------------------------------
(* calculateSimilarity applied to every pair of short strings *)

LyricsChars == {"a", "B", " ", "!"}
QueryChars == {"a", "b", " ", "!"}

StringsUpTo(chars, n) == UNION {[1..k -> chars] : k \in 0..n}

\* a call that has not returned has no output; one that has returned v has <<v>>
NoValue == <<>>
Returned == output # NoValue
Value == output[1]

\* useSongSearch before any input: lines 21-26, and the effect of the mount
InitSearch ==
    /\ searchQuery = <<>>
    /\ deferredSearchQuery = <<>>
    /\ memoizedResults = <<>>
    /\ effectPending = FALSE
    /\ transitionQueue = <<>>
    /\ searchResults = <<>>
    /\ clearCalls = 0
    /\ sinceClear = FALSE
    /\ InitModal

InitSimilarity ==
    /\ now = 0
    /\ events = 0
    /\ runs = <<>>
    /\ calls = <<>>
    /\ cache = {}
    /\ evicted = {}
    /\ username = <<>>
    /\ timer = -1
    /\ songs = <<>>
    /\ isLoading = FALSE
    /\ error = "null"
    /\ loads = <<>>
    /\ changes = <<>>
    /\ input \in [lyrics : StringsUpTo(LyricsChars, MaxLyricsLen),
                  query : StringsUpTo(QueryChars, MaxQueryLen)]
    /\ output = NoValue
    /\ InitSearch

Calculate ==
    /\ output = NoValue
    /\ output' = <<calculateSimilarity(input.lyrics, input.query)>>
    /\ UNCHANGED <<clockVars, runs, serviceVars, evicted, hookVars, input, searchVars,
                   modalVars>>

----------------------------------------------------------------------------
(* lib/suno.ts: mapClipToSong with every field of the clip.  The collector  *)
(* above follows the id, the title and the matchScore of a song only; here  *)
(* the clip has all the fields the conversion reads, each of them missing   *)
(* (undefined or null), empty, or set.                                      *)

Undefined == "undefined"

\* what is false in a condition, among the values of the fields
Falsy(v) == v \in {Undefined, ""}

\* mutant: a ?? b, which keeps an empty string
OrElseNullish(a, b) == IF a = Undefined THEN b ELSE a

\* a || b
OrElse(a, b) == IF Falsy(a) THEN b ELSE a

\* clip.metadata?.field
MetadataField(clip, field) ==
    IF clip.metadata.missing THEN Undefined ELSE clip.metadata[field]

\* mapClipToSong: lines 31-42
mapClipToSongFields(clip) ==
    [id         |-> clip.id,
     title      |-> OrElse(clip.title, "Untitled"),
     lyrics     |-> OrElse(MetadataField(clip, "prompt"),
                           OrElse(MetadataField(clip, "gpt_description_prompt"),
                                  "")),
     audioUrl   |-> clip.audio_url,
     imageUrl   |-> OrElse(clip.image_large_url, clip.image_url),
     tags       |-> OrElse(MetadataField(clip, "tags"), ""),
     matchScore |-> 0]

\* the metadata object of a clip, or the record that stands for a clip
\* without one
NoMetadata ==
    [missing |-> TRUE, prompt |-> Undefined,
     gpt_description_prompt |-> Undefined, tags |-> Undefined]

ClipMetadata ==
    {NoMetadata}
    \cup [missing : {FALSE},
          prompt : {Undefined, "", "p"},
          gpt_description_prompt : {Undefined, "", "g"},
          tags : {Undefined, "", "rock"}]

SunoClips ==
    [id              : {"", "a"},
     title           : {Undefined, "", "t1"},
     audio_url       : {Undefined, "mp3"},
     image_url       : {Undefined, "", "img"},
     image_large_url : {Undefined, "", "large"},
     metadata        : ClipMetadata]

InitMapClip ==
    /\ now = 0
    /\ events = 0
    /\ runs = <<>>
    /\ calls = <<>>
    /\ cache = {}
    /\ evicted = {}
    /\ username = <<>>
    /\ timer = -1
    /\ songs = <<>>
    /\ isLoading = FALSE
    /\ error = "null"
    /\ loads = <<>>
    /\ changes = <<>>
    /\ input \in [clip : SunoClips]
    /\ output = NoValue
    /\ InitSearch

MapClip ==
    /\ output = NoValue
    /\ output' = <<mapClipToSongFields(input.clip)>>
    /\ UNCHANGED <<clockVars, runs, serviceVars, evicted, hookVars, input, searchVars,
                   modalVars>>

----------------------------------------------------------------------------
(* normalize applied to every short string *)

NormalizeChars == {"a", "B", " ", "\t", "!"}

InitNormalize ==
    /\ now = 0
    /\ events = 0
    /\ runs = <<>>
    /\ calls = <<>>
    /\ cache = {}
    /\ evicted = {}
    /\ username = <<>>
    /\ timer = -1
    /\ songs = <<>>
    /\ isLoading = FALSE
    /\ error = "null"
    /\ loads = <<>>
    /\ changes = <<>>
    /\ input \in [str : StringsUpTo(NormalizeChars, MaxInputLen)]
    /\ output = NoValue
    /\ InitSearch

Normalize ==
    /\ output = NoValue
    /\ output' = <<normalize(input.str)>>
    /\ UNCHANGED <<clockVars, runs, serviceVars, evicted, hookVars, input, searchVars,
                   modalVars>>

----------------------------------------------------------------------------
(* calculateSimilarity applied twice to the same lyrics: with a query of   *)
(* words in which a word may occur again, and with the same query without  *)
(* the repetitions                                                         *)

RepeatWords == {<<"a">>, <<"b">>}

\* the words, with one space between them
RECURSIVE JoinWords(_)
JoinWords(words) ==
    IF words = <<>> THEN <<>>
    ELSE IF Len(words) = 1 THEN Head(words)
    ELSE Head(words) \o <<" ">> \o JoinWords(Tail(words))

\* the words without the later occurrences of a word
RECURSIVE WithoutRepeats(_)
WithoutRepeats(words) ==
    IF words = <<>> THEN <<>>
    ELSE LET front == WithoutRepeats(SubSeq(words, 1, Len(words) - 1))
             last == words[Len(words)]
         IN IF \E i \in 1..Len(front) : front[i] = last
            THEN front ELSE Append(front, last)

InitRepeat ==
    /\ now = 0
    /\ events = 0
    /\ runs = <<>>
    /\ calls = <<>>
    /\ cache = {}
    /\ evicted = {}
    /\ username = <<>>
    /\ timer = -1
    /\ songs = <<>>
    /\ isLoading = FALSE
    /\ error = "null"
    /\ loads = <<>>
    /\ changes = <<>>
    /\ input \in [lyrics : StringsUpTo(LyricsChars, MaxLyricsLen),
                  words : UNION {[1..k -> RepeatWords] : k \in 1..MaxQueryWords}]
    /\ output = NoValue
    /\ InitSearch

\* calculateSimilarity(lyrics, "w w x")
CalculateRepeated ==
    /\ Len(output) = 0
    /\ output' = <<calculateSimilarity(input.lyrics, JoinWords(input.words))>>
    /\ UNCHANGED <<clockVars, runs, serviceVars, evicted, hookVars, input, searchVars,
                   modalVars>>

\* then calculateSimilarity(lyrics, "w x")
CalculateDistinct ==
    /\ Len(output) = 1
    /\ output' = Append(output,
           calculateSimilarity(input.lyrics,
                               JoinWords(WithoutRepeats(input.words))))
    /\ UNCHANGED <<clockVars, runs, serviceVars, evicted, hookVars, input, searchVars,
                   modalVars>>

----------------------------------------------------------------------------
(* The ranking: useSongSearch.calculateResults and                         *)
(* searchService.searchSongs, which are the same code                      *)

\* songs.map(song => ({...song, matchScore: calculateSimilarity(...)}))
ScoreSongs(query, availableSongs) ==
    [i \in 1..Len(availableSongs) |->
        [availableSongs[i] EXCEPT
            !.matchScore = calculateSimilarity(availableSongs[i].lyrics, query)]]

\* mutant: nothing is filtered out
FilterKeepsAll(scoredSongs) == scoredSongs

\* .filter(song => song.matchScore > 0)
RECURSIVE FilterMatches(_)
FilterMatches(scoredSongs) ==
    IF scoredSongs = <<>> THEN <<>>
    ELSE IF Head(scoredSongs).matchScore > 0
         THEN <<Head(scoredSongs)>> \o FilterMatches(Tail(scoredSongs))
         ELSE FilterMatches(Tail(scoredSongs))

\* where a stable sort with the comparator b.matchScore - a.matchScore puts
\* the next element: after every element that does not compare after it
InsertUnstable(sorted, song) ==
    LET k == Cardinality({i \in 1..Len(sorted) :
                              sorted[i].matchScore > song.matchScore})
    IN SubSeq(sorted, 1, k) \o <<song>> \o SubSeq(sorted, k + 1, Len(sorted))

InsertSorted(sorted, song) ==
    LET k == Cardinality({i \in 1..Len(sorted) :
                              sorted[i].matchScore - song.matchScore >= 0})
    IN SubSeq(sorted, 1, k) \o <<song>> \o SubSeq(sorted, k + 1, Len(sorted))

\* .sort((a, b) => b.matchScore - a.matchScore): Array.prototype.sort is
\* stable, so this is the insertion of the elements in their order
RECURSIVE SortFrom(_, _)
SortFrom(sorted, rest) ==
    IF rest = <<>> THEN sorted
    ELSE SortFrom(InsertSorted(sorted, Head(rest)), Tail(rest))

SortByScore(scoredSongs) == SortFrom(<<>>, scoredSongs)

SliceAll(sortedSongs) == sortedSongs

\* .slice(0, MAX_SEARCH_RESULTS)
SliceTop(sortedSongs) ==
    SubSeq(sortedSongs, 1,
           IF Len(sortedSongs) < MAX_SEARCH_RESULTS
           THEN Len(sortedSongs) ELSE MAX_SEARCH_RESULTS)

\* useSongSearch.calculateResults: part_015 lines 28-42
calculateResults(query, availableSongs) ==
    IF Trim(query) = <<>> \/ Len(availableSongs) = 0 THEN <<>>
    ELSE SliceTop(SortByScore(FilterMatches(ScoreSongs(query, availableSongs))))

\* searchService.searchSongs: lines 16-32
searchSongs(query, songList) ==
    IF Trim(query) = <<>> \/ Len(songList) = 0 THEN <<>>
    ELSE SliceTop(SortByScore(FilterMatches(ScoreSongs(query, songList))))

----------------------------------------------------------------------------
(* The ranking applied to corpora of up to MaxCorpusLen songs *)

\* lyrics that score 1.0, 0.9, 0.5 and 0 for the query "a b", and lyrics
\* of which normalize leaves nothing
RankLyrics ==
    { <<"a", " ", "b">>, <<"b", " ", "a">>, <<"B", "!">>, <<"x">>, <<"!">> }

RankQueries ==
    { <<"a", " ", "b">>, <<"b">>, <<" ", "A">>, <<" ">>, <<"!">>, <<>> }

\* a corpus holds each id once; the id of a song is its place in the corpus
SongAt(i, lyrics) == [id |-> i, lyrics |-> lyrics, matchScore |-> 0]

Patterns == UNION {[1..k -> RankLyrics] : k \in 1..MaxPatternLen}

\* the corpus of n songs whose lyrics repeat the pattern
Repeat(pattern, n) ==
    [i \in 1..n |-> SongAt(i, pattern[((i - 1) % Len(pattern)) + 1])]

RankCorpora ==
    {<<>>}
    \cup {Repeat(p, Len(p)) : p \in Patterns}
    \cup {Repeat(p, n) : p \in Patterns,
                         n \in (MaxCorpusLen - 2)..MaxCorpusLen}

InitRanking ==
    /\ now = 0
    /\ events = 0
    /\ runs = <<>>
    /\ calls = <<>>
    /\ cache = {}
    /\ evicted = {}
    /\ username = <<>>
    /\ timer = -1
    /\ songs = <<>>
    /\ isLoading = FALSE
    /\ error = "null"
    /\ loads = <<>>
    /\ changes = <<>>
    /\ input \in [query : RankQueries, songs : RankCorpora]
    /\ output = NoValue
    /\ InitSearch

\* mutant: the scores are assigned to the songs of the corpus, and the corpus
\* itself is sorted
CorpusSortedInPlace(query, availableSongs) ==
    IF Trim(query) = <<>> \/ Len(availableSongs) = 0 THEN availableSongs
    ELSE SortByScore(ScoreSongs(query, availableSongs))

\* The array passed in, after the call.  map() makes a new array of new
\* objects ({...song, matchScore}), filter() a new array of these, sort()
\* sorts that array in place and slice() copies from it: nothing is assigned
\* to the array passed in, nor to a song of it.
CorpusAfterRanking(query, availableSongs) == availableSongs

\* The ranking is called with the query and the corpus, and is called once
\* more with the same query and the corpus as the first call left it.
CalculateResults ==
    /\ Len(output) < 2
    /\ output' = Append(output, calculateResults(input.query, input.songs))
    /\ input' = [input EXCEPT
                    !.songs = CorpusAfterRanking(input.query, input.songs)]
    /\ UNCHANGED <<clockVars, runs, serviceVars, evicted, hookVars, searchVars,
                   modalVars>>

SearchSongs ==
    /\ Len(output) < 2
    /\ output' = Append(output, searchSongs(input.query, input.songs))
    /\ input' = [input EXCEPT
                    !.songs = CorpusAfterRanking(input.query, input.songs)]
    /\ UNCHANGED <<clockVars, runs, serviceVars, evicted, hookVars, searchVars,
                   modalVars>>

----------------------------------------------------------------------------
(* workers/similarity.worker.ts *)

\* .slice(0, 10)
SliceTen(sortedSongs) ==
    SubSeq(sortedSongs, 1, IF Len(sortedSongs) < 10 THEN Len(sortedSongs) ELSE 10)

\* self.onmessage for a message of type 'calculate': the results it posts,
\* lines 15-41.  postMessage hands the receiver a structured clone, which
\* holds the same values.
onmessage(query, songList) ==
    IF Trim(query) = <<>> \/ Len(songList) = 0 THEN <<>>
    ELSE SliceTen(SortByScore(FilterMatches(ScoreSongs(query, songList))))

\* The worker is sent the query and the corpus the hook and the service were
\* called with, and posts its results.
OnMessage ==
    /\ Len(output) = 2
    /\ output' = Append(output, onmessage(input.query, input.songs))
    /\ UNCHANGED <<clockVars, runs, serviceVars, evicted, hookVars, input,
                   searchVars,
                   modalVars>>

----------------------------------------------------------------------------
(* hooks/useSongSearch.ts (part_015).  The hook runs under React 18: an     *)
(* action of the model is one commit of a render, or the run of the effect  *)
(* of the last commit.  A render caused by an input (a query change,        *)
(* clearSearch, a new songs array) is not a transition: useDeferredValue    *)
(* keeps its previous value in it and the setSearchResults updates made in  *)
(* startTransition are skipped and stay queued.  A transition render takes  *)
(* the latest query as the deferred value and applies every queued update.  *)
(* The effect of a commit runs before the next render starts.               *)

SearchQueries == { <<>>, <<"a">>, <<"b">> }

SearchCorpora ==
    { <<>>,
      << SongAt(1, <<"a">>) >>,
      << SongAt(1, <<"a">>), SongAt(2, <<"a", " ", "b">>) >> }

\* calculateResults on the queries and songs arrays of this environment,
\* computed once
ResultsFor ==
    [query \in SearchQueries, songList \in SearchCorpora |->
        calculateResults(query, songList)]

\* the memo that keeps what it held when an input is blank or empty
MemoKeepsStale(query, songList) ==
    IF query = <<>> \/ Len(songList) = 0 THEN memoizedResults
    ELSE ResultsFor[query, songList]

\* memoizedResults: lines 45-50
Memo(query, songList) ==
    IF query = <<>> \/ Len(songList) = 0 THEN <<>>
    ELSE ResultsFor[query, songList]

\* the queue once the effect of the last commit (lines 53-57), if it has not
\* run yet, has run: startTransition(() => setSearchResults(memoizedResults)).
\* A render starts by running it.
Flushed(queue) ==
    IF effectPending THEN Append(queue, memoizedResults) ELSE queue

RenderSyncBehindQueue(current, queue, urgent) ==
    IF queue = <<>> THEN urgent ELSE current

\* the state a render that is not a transition computes when the queue holds
\* the urgent update setSearchResults(urgent): the transition updates are
\* skipped, the urgent one is applied to the current state
RenderSync(current, queue, urgent) == urgent

\* what stays queued after that render: an urgent update that follows a
\* skipped update stays behind it, to be applied again in its place
RestAfterSync(queue, urgent) ==
    IF queue = <<>> THEN <<>> ELSE Append(queue, urgent)

\* setSearchQuery(query) from the input, and the render that follows
SetSearchQuery(query) ==
    /\ events < MaxSearchEvents
    /\ query # searchQuery
    /\ events' = events + 1
    /\ searchQuery' = query
    /\ sinceClear' = (sinceClear /\ Trim(query) = <<>>)
    /\ transitionQueue' = Flushed(transitionQueue)
    /\ effectPending' = FALSE
    /\ UNCHANGED <<now, runs, serviceVars, evicted, hookVars, pureVars,
                   deferredSearchQuery, memoizedResults, searchResults,
                   clearCalls,
                   modalVars>>

\* clearSearch: lines 59-62, and the render that follows.  Its two updates
\* are queued by the call; the effect of the last commit, if it has not run
\* yet, runs when the render starts and queues its update after them.
ClearSearch ==
    /\ events < MaxSearchEvents
    /\ events' = events + 1
    /\ clearCalls' = clearCalls + 1
    /\ sinceClear' = TRUE
    /\ searchQuery' = <<>>
    /\ searchResults' = RenderSync(searchResults, transitionQueue, <<>>)
    /\ transitionQueue' =
           RestAfterSync(transitionQueue, <<>>)
           \o (IF effectPending THEN <<memoizedResults>> ELSE <<>>)
    /\ effectPending' = FALSE
    /\ UNCHANGED <<now, runs, serviceVars, evicted, hookVars, pureVars,
                   deferredSearchQuery, memoizedResults,
                   modalVars>>

\* The component that uses the hook renders it with a new songs array (the
\* songs state of useSunoSongs has been set): useMemo computes again.
SongsChange(songList) ==
    /\ events < MaxSearchEvents
    /\ events' = events + 1
    /\ songs' = songList
    /\ transitionQueue' = Flushed(transitionQueue)
    /\ memoizedResults' = Memo(deferredSearchQuery, songList)
    /\ effectPending' = TRUE
    /\ UNCHANGED <<now, runs, serviceVars, evicted, username, timer, isLoading, error,
                   changes,
                   loads, pureVars, searchQuery, deferredSearchQuery,
                   searchResults, clearCalls, sinceClear,
                   modalVars>>

\* The effect of the last commit runs before any other render has started.
FlushEffect ==
    /\ effectPending
    /\ transitionQueue' = Flushed(transitionQueue)
    /\ effectPending' = FALSE
    /\ UNCHANGED <<clockVars, runs, serviceVars, evicted, hookVars, pureVars,
                   searchQuery, deferredSearchQuery, memoizedResults,
                   searchResults, clearCalls, sinceClear,
                   modalVars>>

\* A transition render commits: the deferred value catches up with the query
\* (line 26) and the queued setSearchResults updates are applied in order.
TransitionRender ==
    LET queue == Flushed(transitionQueue)
        catchesUp == deferredSearchQuery # searchQuery
    IN /\ queue # <<>> \/ catchesUp
       /\ transitionQueue' = <<>>
       /\ searchResults' = IF queue # <<>> THEN queue[Len(queue)]
                           ELSE searchResults
       /\ deferredSearchQuery' = searchQuery
       /\ memoizedResults' = IF catchesUp THEN Memo(searchQuery, songs)
                             ELSE memoizedResults
       /\ effectPending' = catchesUp
       /\ UNCHANGED <<clockVars, runs, serviceVars, evicted, hookVars, pureVars,
                      searchQuery, clearCalls, sinceClear,
                   modalVars>>

----------------------------------------------------------------------------
(* The service with a record already in its cache: the coordinator has      *)
(* called fetchUserSongs("d") at time 0, the run has returned at once, and  *)
(* the timeout has passed since.                                            *)

RECURSIVE RunAfter(_, _)
RunAfter(run, resps) ==
    IF resps = <<>> THEN run
    ELSE CHOOSE last \in { RunAfter(next, Tail(resps)) :
                               next \in {RunStep(run, Head(resps))} } : TRUE

\* the pages of that run: the clips, then empty pages until it stops
EarlierResponses ==
    << Resp("ok", "array", CHOOSE p \in ServicePages : TRUE) >>
    \o [i \in 1..MAX_CONSECUTIVE_EMPTY_PAGES |-> Resp("ok", "array", <<>>)]

EarlierRun ==
    [RunAfter(NewRun("service", 1, <<"d">>, TRUE), EarlierResponses)
        EXCEPT !.finishedAt = 0]

EarlierCall ==
    CallAfterRun([NewCall(Coordinator, <<"d">>, TRUE)
                     EXCEPT !.run = 1, !.at = 0],
                 EarlierRun)

InitEvict ==
    /\ now = cacheTimeout
    /\ events = 0
    /\ runs = <<EarlierRun>>
    /\ calls = <<EarlierCall>>
    /\ cache = CacheSet({}, EarlierCall.key, EarlierRun.result, 0, 1)
    /\ evicted = {}
    /\ username = <<>>
    /\ timer = -1
    /\ songs = <<>>
    /\ isLoading = FALSE
    /\ error = "null"
    /\ loads = <<>>
    /\ changes = <<>>
    /\ input = NoValue
    /\ output = NoValue
    /\ InitSearch

----------------------------------------------------------------------------

Init ==
    /\ now = 0
    /\ events = 0
    /\ runs = <<>>
    /\ calls = <<>>
    /\ cache = {}
    /\ evicted = {}
    /\ username = <<>>
    /\ timer = -1
    /\ songs = <<>>
    /\ isLoading = FALSE
    /\ error = "null"
    /\ loads = <<>>
    /\ changes = <<>>
    /\ input = NoValue
    /\ output = NoValue
    /\ InitSearch

NextCollector ==
    \/ \E name \in DirectUsernames, hasProgress \in BOOLEAN :
          StartCollect(name, hasProgress)
    \/ \E r \in 1..Len(runs), resp \in Responses : CollectPage(r, resp)

SpecCollector == Init /\ [][NextCollector]_vars

NextService ==
    \/ \E name \in ServiceUsernames, hasProgress \in BOOLEAN :
          FetchUserSongs(Coordinator, name, hasProgress)
    \/ \E r \in 1..Len(runs), resp \in ServiceResponses : ServicePage(r, resp)
    \/ \E name \in ServiceUsernames : ClearCache(name)
    \/ ClearCacheAll
    \/ \E d \in ServiceTicks : Tick(d)

SpecService == Init /\ [][NextService]_vars

\* Two components call the service without waiting for each other.
NextOverlap ==
    \/ \E caller \in Callers, name \in OverlapUsernames :
          FetchUserSongs(caller, name, TRUE)
    \/ \E r \in 1..Len(runs), resp \in OverlapResponses : ServicePage(r, resp)
    \/ ClearCacheAll
    \/ \E d \in ServiceTicks : Tick(d)

SpecOverlap == Init /\ [][NextOverlap]_vars

\* The page mounts the hook with the default username or with none.
NextHook ==
    \/ \E name \in HookUsernames : UpdateUsername(name)
    \/ TimerFires
    \/ \E r \in 1..Len(runs), resp \in HookResponses : HookPage(r, resp)
    \/ \E d \in HookTicks : HookTick(d)

SpecHook ==
    /\ \E initialUsername \in {<<"d">>, <<>>} : InitHook(initialUsername)
    /\ [][NextHook]_vars

\* the usernames clearCache is called with: those of the calls, and ""
ClearUsernames == ServiceUsernames \cup {<<>>}

\* The coordinator goes on calling the service and clearing its cache.
NextEvict ==
    \/ \E name \in ServiceUsernames : FetchUserSongs(Coordinator, name, TRUE)
    \/ \E r \in 1..Len(runs), resp \in OverlapResponses : ServicePage(r, resp)
    \/ \E name \in ClearUsernames : ClearCache(name)
    \/ ClearCacheAll
    \/ \E d \in ServiceTicks : Tick(d)

SpecEvict == InitEvict /\ [][NextEvict]_vars

NextFeed ==
    \/ \E name \in FeedUsernames : StartFeed(name)
    \/ FeedPage(1)

\* every awaited page request is answered
SpecFeed == Init /\ [][NextFeed]_vars /\ WF_vars(FeedPage(1))

NextSimilarity == Calculate

NextMapClip == MapClip

SpecMapClip == InitMapClip /\ [][NextMapClip]_vars

NextNormalize == Normalize

SpecNormalize == InitNormalize /\ [][NextNormalize]_vars

NextRepeat == CalculateRepeated \/ CalculateDistinct

SpecRepeat == InitRepeat /\ [][NextRepeat]_vars

SpecSimilarity == InitSimilarity /\ [][NextSimilarity]_vars

NextRanking == CalculateResults \/ SearchSongs

SpecRanking == InitRanking /\ [][NextRanking]_vars

\* The hook's and the service's ranking are called, then the worker's.
NextWorker ==
    \/ CalculateResults
    \/ SearchSongs
    \/ OnMessage

SpecWorker == InitRanking /\ [][NextWorker]_vars

\* The user opens the lyrics of a song, closes the modal, and time passes.
NextModal ==
    \/ \E modalData \in ModalData : Open(modalData)
    \/ Close
    \/ \E due \in resetTimers : ResetFires(due)
    \/ \E d \in ModalTicks : ModalTick(d)

SpecModal == Init /\ [][NextModal]_vars

\* the blank usernames the service is called with
BlankCallUsernames == { <<>>, <<" ", "\t">> }

\* the usernames the page sets: one of spaces, and one that names an artist
BlankHookUsernames == { <<" ">>, <<"d">> }

\* A component calls the service with a blank username and an onProgress
\* callback while the hook of the page loads songs.
NextBlank ==
    \/ \E name \in BlankCallUsernames :
          FetchUserSongs(Coordinator, name, TRUE)
    \/ \E name \in BlankHookUsernames : UpdateUsername(name)
    \/ TimerFires
    \/ \E r \in 1..Len(runs), resp \in HookResponses : HookPage(r, resp)
    \/ HookTick(USERNAME_DEBOUNCE_MS)

SpecBlank ==
    /\ \E initialUsername \in {<<"d">>, <<" ">>} : InitHook(initialUsername)
    /\ [][NextBlank]_vars

NextSearch ==
    \/ \E query \in SearchQueries : SetSearchQuery(query)
    \/ ClearSearch
    \/ \E songList \in SearchCorpora : SongsChange(songList)
    \/ FlushEffect
    \/ TransitionRender

SpecSearch == Init /\ [][NextSearch]_vars

\* React runs the effect of a commit, and renders the work that is pending,
\* once the inputs leave it the time.
SpecSearchLive ==
    /\ Init
    /\ [][NextSearch]_vars
    /\ WF_vars(FlushEffect)
    /\ WF_vars(TransitionRender)

----------------------------------------------------------------------------
(* Claims about the collector, checked under SpecCollector *)

Ids(seq) == [i \in 1..Len(seq) |-> seq[i].id]
IdSet(seq) == {seq[i].id : i \in 1..Len(seq)}
NoDuplicateIds(seq) ==
    \A i, j \in 1..Len(seq) : seq[i].id = seq[j].id => i = j

\* the ids, other than the empty one, delivered on the pages processed so far
SeenIds(run) == {id \in DOMAIN run.lastSeen : run.lastSeen[id] # NoSong}

Snapshots(run) ==
    (IF run.progress > 0 THEN {run.lastProgress} ELSE {})
    \cup (IF run.status = "returned" THEN {run.result} ELSE {})

\* C1: the array returned by fetchAllSunoSongs and every array passed to
\* onProgress hold no two songs with the same id and hold every non-empty id
\* that appeared on a processed page.
C1_UniqueAndComplete ==
    \A r \in 1..Len(runs) : \A corpus \in Snapshots(runs[r]) :
        /\ NoDuplicateIds(corpus)
        /\ IdSet(corpus) = SeenIds(runs[r])

\* C1 witness: a run returned after the same id came on two pages, with
\* different titles, and another id besides.
C1_Witness ==
    \E r \in 1..Len(runs) :
        /\ runs[r].status = "returned"
        /\ runs[r].dataPages = 2
        /\ runs[r].progress = 2
        /\ Len(runs[r].result) = 2
        /\ \E i \in 1..Len(runs[r].firstSeen) :
              runs[r].firstSeen[i] # runs[r].lastSeen[runs[r].firstSeen[i].id]

\* C2 as claimed: an id delivered again on a later page keeps the data of its
\* first delivery, at its first-seen position, in the result and in every
\* snapshot (runs in which one page holds an id twice are left aside).
C2_FirstSeenRetained ==
    \A r \in 1..Len(runs) : \A corpus \in Snapshots(runs[r]) :
        ~runs[r].repeatInPage => corpus = runs[r].firstSeen

\* C2 as amended: an id delivered again keeps its first-seen position, and
\* its entry holds the data of its most recent delivery.
C2_FirstPositionLastData ==
    \A r \in 1..Len(runs) : \A corpus \in Snapshots(runs[r]) :
        /\ Ids(corpus) = Ids(runs[r].firstSeen)
        /\ \A i \in 1..Len(corpus) :
              corpus[i] = runs[r].lastSeen[corpus[i].id]

\* C2 witness: a returned run whose first id came again on a later page with
\* another title.
C2_Witness ==
    \E r \in 1..Len(runs) :
        /\ runs[r].status = "returned"
        /\ runs[r].dataPages = 2
        /\ ~runs[r].repeatInPage
        /\ Len(runs[r].result) = 2
        /\ runs[r].result[1] # runs[r].firstSeen[1]

\* C3: a run stops exactly when 10 consecutive pages have been empty or
\* absent.  While fewer than 10 pages in a row were empty the run has the
\* next page requested; at the 10th it has returned the corpus built so
\* far and requested nothing more.
C3_StopsAtTenthEmpty ==
    \A r \in 1..Len(runs) :
        LET run == runs[r] IN
        /\ run.status = "fetching" =>
              /\ run.trailingEmpty < 10
              /\ run.reqLog = [i \in 1..(run.processed + 1) |-> i - 1]
        /\ run.status = "returned" =>
              /\ run.trailingEmpty = 10
              /\ run.reqLog = [i \in 1..run.processed |-> i - 1]
              /\ Ids(run.result) = Ids(run.firstSeen)
        /\ run.status # "rejected" => run.emptyPages = run.trailingEmpty

\* C3 witness: 9 empty pages, a page with clips, 10 empty pages, and the
\* run has returned after 20 pages.
C3_Witness ==
    \E r \in 1..Len(runs) :
        /\ runs[r].status = "returned"
        /\ runs[r].processed = 20
        /\ runs[r].dataPages = 1
        /\ Len(runs[r].result) > 0

\* C4 as claimed: a page request that fails by a transport error is one empty
\* page, and fetchAllSunoSongs does not reject because of it.
C4_TransportErrorIsEmptyPage ==
    \A r \in 1..Len(runs) :
        ~(runs[r].status = "rejected" /\ runs[r].failure = "transport")

----------------------------------------------------------------------------
(* Claims about the cache, checked under SpecService (one coordinator, which
   awaits each call) and SpecOverlap (two components calling at will) *)

\* the normalized form of the usernames the callers type, written out
ExpectedKey(name) ==
    CASE name = <<"D">>            -> <<"d">>
      [] name = <<" ", "d", "\t">> -> <<"d">>
      [] name = <<"x">>            -> <<"x">>
      [] OTHER                     -> <<>>

\* this step is a call of fetchUserSongs
IsCallStep == Len(calls') = Len(calls) + 1
NewestCall == calls'[Len(calls')]

\* this step ends run r of the service with the given status
RunEndsWith(r, status) ==
    /\ runs[r].caller = "service"
    /\ runs[r].status = "fetching"
    /\ runs'[r].status = status

\* C5: a call that finds a record of its normalized username younger than 5
\* minutes returns that record's songs, requests no page, never calls
\* onProgress and leaves the cache as it is.
C5_FreshRecordIsServed ==
    [][ IsCallStep =>
          \A rec \in cache :
              /\ rec.key = ExpectedKey(NewestCall.username)
              /\ now - rec.timestamp < cacheTimeout
              => /\ NewestCall.status = "resolved"
                 /\ NewestCall.result = rec.songs
                 /\ NewestCall.run = 0
                 /\ NewestCall.progress = 0
                 /\ runs' = runs
                 /\ cache' = cache ]_vars

\* C5 witness: a call made one millisecond before the record of its key
\* expired was answered from the cache, with songs.
C5_Witness ==
    \E c \in 1..Len(calls) : \E rec \in cache :
        /\ rec.key = calls[c].key
        /\ calls[c].at - rec.timestamp = cacheTimeout - 1
        /\ calls[c].status = "resolved"
        /\ calls[c].run = 0
        /\ calls[c].hasProgress
        /\ calls[c].result = rec.songs
        /\ rec.songs # <<>>

\* C6 as claimed: of two calls with the same normalized username made within
\* the TTL window, the second one in flight of the first included, only one
\* starts a collection run, and both return the same corpus.
C6_OneRunPerWindow ==
    \A c1, c2 \in 1..Len(calls) :
        /\ c1 < c2
        /\ calls[c1].key = calls[c2].key
        /\ calls[c1].key # <<>>
        /\ calls[c2].at - calls[c1].at < cacheTimeout
        => /\ ~(calls[c1].run # 0 /\ calls[c2].run # 0)
           /\ calls[c1].status = "resolved" /\ calls[c2].status = "resolved"
                 => calls[c1].result = calls[c2].result

\* C6 as amended: a call made after an earlier call with the same normalized
\* username has completed its run and stored its record, less than 5 minutes
\* after that completion, with no clearCache and no other run's completion
\* for that key in between, starts no run and returns the earlier call's
\* corpus.
C6_SecondCallAfterCompletion ==
    [][ IsCallStep =>
          \A c1 \in 1..Len(calls) :
              /\ calls[c1].key = ExpectedKey(NewestCall.username)
              /\ calls[c1].status = "resolved"
              /\ calls[c1].run # 0
              /\ \E rec \in cache : rec.key = calls[c1].key /\ rec.by = c1
              /\ now - runs[calls[c1].run].finishedAt < cacheTimeout
              => /\ NewestCall.run = 0
                 /\ runs' = runs
                 /\ NewestCall.status = "resolved"
                 /\ NewestCall.result = calls[c1].result ]_vars

\* C6 witness: two calls for one key typed differently; the second was made
\* after the first completed its run, and was answered without a run.
C6_Witness ==
    \E c1, c2 \in 1..Len(calls) :
        /\ c1 < c2
        /\ calls[c1].username # calls[c2].username
        /\ calls[c1].key = calls[c2].key
        /\ calls[c1].run # 0
        /\ calls[c1].status = "resolved"
        /\ calls[c1].result # <<>>
        /\ calls[c2].run = 0
        /\ calls[c2].status = "resolved"
        /\ calls[c2].result = calls[c1].result

\* C7: the cache is keyed by the trimmed, lower-cased username: "D" and
\* " d<tab>" read and write the record of "d", and the cache never holds two
\* records of one normalized username.
C7_KeysAreNormalized ==
    /\ \A rec \in cache : rec.key \in {<<"d">>, <<"x">>}
    /\ \A rec1, rec2 \in cache : rec1.key = rec2.key => rec1 = rec2
    /\ \A c \in 1..Len(calls) : calls[c].key = ExpectedKey(calls[c].username)
    /\ \A c \in 1..Len(calls) :
          calls[c].run # 0 => runs[calls[c].run].username = calls[c].key

\* C7 witness: the record stored by a call for "D" answered a call for
\* " d<tab>".
C7_Witness ==
    \E c1, c2 \in 1..Len(calls) : \E rec \in cache :
        /\ calls[c1].username = <<"D">>
        /\ calls[c2].username = <<" ", "d", "\t">>
        /\ rec.key = <<"d">>
        /\ rec.by = c1
        /\ calls[c2].run = 0
        /\ calls[c2].status = "resolved"
        /\ calls[c2].result = rec.songs
        /\ rec.songs # <<>>

\* C8: a record at least 5 minutes old is treated as absent: the call starts
\* a new run and passes its onProgress on, and when the run returns the
\* record of the key is replaced by the new corpus with the time of return.
C8_StaleRecordIsRefetched ==
    [][ /\ IsCallStep =>
             \A rec \in cache :
                 /\ rec.key = ExpectedKey(NewestCall.username)
                 /\ now - rec.timestamp >= cacheTimeout
                 => /\ NewestCall.status = "pending"
                    /\ NewestCall.run = Len(runs) + 1
                    /\ Len(runs') = Len(runs) + 1
                    /\ runs'[NewestCall.run].status = "fetching"
                    /\ runs'[NewestCall.run].reqLog = <<0>>
                    /\ runs'[NewestCall.run].hasProgress = NewestCall.hasProgress
                    /\ cache' = cache
        /\ \A r \in 1..Len(runs) :
             RunEndsWith(r, "returned") =>
                 LET c == runs[r].call IN
                 /\ calls'[c].status = "resolved"
                 /\ calls'[c].result = runs'[r].result
                 /\ calls'[c].progress = runs'[r].progress
                 /\ \E rec \in cache' :
                       /\ rec.key = ExpectedKey(calls[c].username)
                       /\ rec.songs = runs'[r].result
                       /\ rec.timestamp = now'
                 /\ \A rec1, rec2 \in cache' :
                       rec1.key = rec2.key => rec1 = rec2 ]_vars

\* C8 witness: a call made exactly 5 minutes after the record of its key was
\* written ran a collection, received progress, and its corpus replaced the
\* record.
C8_Witness ==
    \E c1, c2 \in 1..Len(calls) : \E rec \in cache :
        /\ c1 < c2
        /\ calls[c1].key = calls[c2].key
        /\ calls[c1].run # 0
        /\ calls[c1].status = "resolved"
        /\ calls[c2].at - runs[calls[c1].run].finishedAt = cacheTimeout
        /\ calls[c2].run # 0
        /\ calls[c2].status = "resolved"
        /\ calls[c2].progress > 0
        /\ rec.key = calls[c2].key
        /\ rec.by = c2
        /\ rec.timestamp = runs[calls[c2].run].finishedAt
        /\ rec.songs = calls[c2].result

\* the latest call before the newest one with the same key
LatestCallFor(key) ==
    LET same == {c \in 1..Len(calls) : calls[c].key = key}
    IN IF same = {} THEN 0 ELSE CHOOSE c \in same : \A d \in same : d <= c

\* C9: when the run of a call rejects, the cache is left as it was, the call
\* rejects with the generic message, and the next call for that key starts a
\* run from page 0 with an empty corpus.
C9_RejectedRunStoresNothing ==
    [][ /\ \A r \in 1..Len(runs) :
             RunEndsWith(r, "rejected") =>
                 /\ cache' = cache
                 /\ calls'[runs[r].call].status = "rejected"
                 /\ calls'[runs[r].call].error =
                       "Failed to load songs. Please try again."
        /\ IsCallStep =>
             LET prev == LatestCallFor(ExpectedKey(NewestCall.username)) IN
             prev # 0 /\ calls[prev].status = "rejected"
             => /\ NewestCall.run = Len(runs) + 1
                /\ Len(runs') = Len(runs) + 1
                /\ runs'[NewestCall.run].status = "fetching"
                /\ runs'[NewestCall.run].page = 0
                /\ runs'[NewestCall.run].reqLog = <<0>>
                /\ runs'[NewestCall.run].songsMap = <<>> ]_vars

\* C9 witness: a run rejected after it had collected songs, nothing was
\* stored, and the next call for the key is collecting again.
C9_Witness ==
    \E c1, c2 \in 1..Len(calls) :
        /\ c1 < c2
        /\ calls[c1].key = calls[c2].key
        /\ calls[c1].status = "rejected"
        /\ calls[c1].error = GenericLoadError
        /\ runs[calls[c1].run].songsMap # <<>>
        /\ calls[c2].run # 0
        /\ runs[calls[c2].run].processed > 0
        /\ ~CacheHas(cache, calls[c1].key)

----------------------------------------------------------------------------
(* Claims about the hook, checked under SpecHook *)

\* C10 as claimed: when the hook loads a username again less than 5 minutes
\* after a load of that username completed, the second load is served from
\* the cache and requests no page.
C10_SecondLoadRequestsNoPage ==
    \A l1, l2 \in 1..Len(loads) :
        /\ l1 < l2
        /\ loads[l1].username # <<>>
        /\ ExpectedKey(loads[l1].username) = ExpectedKey(loads[l2].username)
        /\ loads[l1].run # 0
        /\ runs[loads[l1].run].status = "returned"
        /\ runs[loads[l1].run].finishedAt <= loads[l2].at
        /\ loads[l2].at - runs[loads[l1].run].finishedAt < cacheTimeout
        => loads[l2].run = 0


----------------------------------------------------------------------------
(* Ranking: calculateSimilarity *)

\* what the score of the call in input is stated in terms of
QueryWordsOf(in) == SplitWords(normalize(in.query))
LyricsWordSet(in) ==
    {SplitWords(normalize(in.lyrics))[i] :
         i \in 1..Len(SplitWords(normalize(in.lyrics)))}
QueryIsSubstring(in) ==
    LET s1 == normalize(in.lyrics)
        s2 == normalize(in.query)
    IN \E i \in 1..(Len(s1) + 1) :
           /\ i + Len(s2) - 1 <= Len(s1)
           /\ \A j \in 1..Len(s2) : s1[i + j - 1] = s2[j]
MatchedWords(in) ==
    Cardinality({i \in 1..Len(QueryWordsOf(in)) :
                     QueryWordsOf(in)[i] \in LyricsWordSet(in)})
\* both normalized strings are non-empty and the query has a word
Scorable(in) ==
    /\ normalize(in.lyrics) # <<>>
    /\ normalize(in.query) # <<>>
    /\ Len(QueryWordsOf(in)) > 0

----------------------------------------------------------------------------
(* Ranking: the result list *)

\* the score the ranking gives a song of the corpus for the query in input
ScoreOf(song) == calculateSimilarity(song.lyrics, input.query)

\* the songs of the corpus in input that score above 0
Matches == {i \in 1..Len(input.songs) : ScoreOf(input.songs[i]) > 0}

InResult(i) == \E k \in 1..Len(Value) : Value[k].id = input.songs[i].id

\* C12: the result is sorted non-increasing by matchScore, has at most 10
\* entries, has no entry with matchScore 0 and holds only entries of the
\* input corpus (each carrying the score of its lyrics for the query).
C12_SortedCappedNonZero ==
    Returned =>
        /\ \A k \in 1..(Len(Value) - 1) :
               Value[k].matchScore >= Value[k + 1].matchScore
        /\ Len(Value) <= 10
        /\ \A k \in 1..Len(Value) : Value[k].matchScore # 0
        /\ \A k \in 1..Len(Value) :
               \E i \in 1..Len(input.songs) :
                   /\ Value[k].id = input.songs[i].id
                   /\ Value[k].lyrics = input.songs[i].lyrics
                   /\ Value[k].matchScore = ScoreOf(input.songs[i])

\* more than 10 songs match, with different scores, and 10 are returned
C12_Witness ==
    /\ Returned
    /\ Cardinality(Matches) > 10
    /\ Len(Value) = 10
    /\ Value[1].matchScore > Value[10].matchScore

\* C13: entries of equal score are in the order of the input corpus, and
\* the entries kept are the first of the stable descending order: a matching
\* song is left out only when 10 are kept, and then every kept entry scores
\* higher than it, or scores the same and comes earlier in the corpus.
C13_StableAndFirstTen ==
    Returned =>
        /\ \A k, l \in 1..Len(Value) :
               (k < l /\ Value[k].matchScore = Value[l].matchScore)
                   => Value[k].id < Value[l].id
        /\ \A k, l \in 1..Len(Value) : k # l => Value[k].id # Value[l].id
        /\ \A i \in Matches :
               \/ InResult(i)
               \/ /\ Trim(input.query) # <<>>
                  /\ Len(Value) = 10
                  /\ \A k \in 1..Len(Value) :
                         \/ Value[k].matchScore > ScoreOf(input.songs[i])
                         \/ /\ Value[k].matchScore = ScoreOf(input.songs[i])
                            /\ Value[k].id < input.songs[i].id

\* a result that holds tied entries which are not adjacent in the corpus,
\* and leaves out a matching song that ties with the last entry kept
C13_Witness ==
    /\ Returned
    /\ Len(Value) = 10
    /\ \E k \in 1..9 :
           /\ Value[k].matchScore = Value[k + 1].matchScore
           /\ Value[k + 1].id > Value[k].id + 1
    /\ \E i \in Matches :
           /\ ~InResult(i)
           /\ ScoreOf(input.songs[i]) = Value[10].matchScore

----------------------------------------------------------------------------
(* Collector: the order of requests and of progress calls *)

\* C14: a run requests the pages 0, 1, 2, ... in this order, none skipped or
\* repeated; it has requested exactly one page more than it has processed
\* while it has not returned (one request in flight at most); and each
\* onProgress call follows the processing of the page requested last, a
\* later page than the one the previous call followed.
C14_PagesInOrder ==
    [][\A r \in 1..Len(runs') :
          LET run == runs'[r] IN
          /\ \A i \in 1..Len(run.reqLog) : run.reqLog[i] = i - 1
          /\ Len(run.reqLog) =
                 run.processed + (IF run.status = "returned" THEN 0 ELSE 1)
          /\ (r <= Len(runs) /\ run.progress # runs[r].progress) =>
                 /\ run.progress = runs[r].progress + 1
                 /\ run.progressPage = runs[r].reqLog[Len(runs[r].reqLog)]
                 /\ run.progressPage > runs[r].progressPage
                 /\ run.processed = run.progressPage + 1
      ]_vars

\* two onProgress calls with pages without a call between them
C14_Witness ==
    \E r \in 1..Len(runs) :
        /\ runs[r].progress = 2
        /\ runs[r].progressPage >= 3
        /\ Len(runs[r].reqLog) >= 5

----------------------------------------------------------------------------
(* Collector: when onProgress is called *)

\* C15 as claimed: onProgress is called after a page only if the page added
\* an entry to the corpus.
C15_ProgressOnlyOnNewEntries ==
    [][\A r \in 1..Len(runs) :
          runs'[r].progress # runs[r].progress =>
              Len(runs'[r].songsMap) > Len(runs[r].songsMap)
      ]_vars

\* C15: a run that was given onProgress calls it once after every page whose
\* clips array is not empty, with the corpus as it is after the page, whether
\* or not the page added an entry; it does not call it after any other page.
C15_ProgressOnEveryDataPage ==
    [][\A r \in 1..Len(runs) :
          /\ runs'[r].progress # runs[r].progress <=>
                 (runs[r].hasProgress
                  /\ runs'[r].dataPages = runs[r].dataPages + 1)
          /\ runs'[r].progress # runs[r].progress =>
                 /\ runs'[r].progress = runs[r].progress + 1
                 /\ runs'[r].lastProgress = runs'[r].songsMap
      ]_vars

\* onProgress was called twice and got the same one-entry corpus both times:
\* the second page added nothing
C15_Witness ==
    \E r \in 1..Len(runs) :
        /\ runs[r].progress = 2
        /\ runs[r].dataPages = 2
        /\ Len(runs[r].songsMap) = 1
        /\ runs[r].lastProgress = runs[r].songsMap

----------------------------------------------------------------------------
(* Search hook *)

\* C16: clearSearch leaves searchQuery and searchResults empty, whatever the
\* query, the songs, the deferred value and the queued updates were.
C16_ClearSearchEmptiesBoth ==
    [][clearCalls' # clearCalls =>
           searchQuery' = <<>> /\ searchResults' = <<>>]_vars

\* clearSearch was called with results on display, a deferred query not yet
\* reset and setSearchResults updates in the queue
C16_Witness ==
    /\ clearCalls = 1
    /\ searchQuery = <<>>
    /\ searchResults = <<>>
    /\ deferredSearchQuery # <<>>
    /\ Len(transitionQueue) >= 2
    /\ transitionQueue[1] # <<>>
    /\ Len(songs) > 0

\* C17 as claimed: a result is published only while its (query, songs) pair
\* is the latest one; the result of a pair that a newer pair has replaced is
\* not published afterwards.
C17_OnlyLatestPublished ==
    [][searchResults' # searchResults =>
           searchResults' = calculateResults(searchQuery', songs')]_vars

\* C18 as claimed: once the query and the songs stop changing, searchResults
\* eventually equals calculateResults(searchQuery, songs) and stays equal.
C18_EventuallyLatestResult ==
    <>[](searchResults = calculateResults(searchQuery, songs))

----------------------------------------------------------------------------
(* Cache: clearCache *)

\* the call that is made in this step starts a collection run
NewestCallRuns ==
    /\ NewestCall.run = Len(runs) + 1
    /\ Len(runs') = Len(runs) + 1
    /\ runs'[NewestCall.run].status = "fetching"
    /\ runs'[NewestCall.run].reqLog = <<0>>
    /\ runs'[NewestCall.run].songsMap = <<>>

\* this step removes the record of the trimmed, lower-cased username and
\* no other
RemovesOnlyKeyOf(name) ==
    /\ ~CacheHas(cache', ExpectedKey(name))
    /\ \A rec \in cache : rec.key # ExpectedKey(name) => rec \in cache'
    /\ cache' \subseteq cache

----------------------------------------------------------------------------
(* Collector: termination *)

EndlessRun == Len(runs) = 1 /\ FeedIsEndless(runs[1].username)
ExhaustibleRun == Len(runs) = 1 /\ ~FeedIsEndless(runs[1].username)
HasReturned == Len(runs) = 1 /\ runs[1].status = "returned"

\* C20: a run has no upper bound on the page number and ends only through
\* the counter of empty pages: against the feed with a clip on every page it
\* is still collecting at whatever page it has reached, a run that has
\* returned has just seen 10 empty pages in a row, and against the feed
\* whose clips run out the run does return.
C20_ReturnsOnlyAfterTenEmptyPages ==
    /\ [](EndlessRun => /\ runs[1].status = "fetching"
                        /\ runs[1].emptyPages = 0
                        /\ runs[1].reqLog = [i \in 1..(runs[1].page + 1) |-> i - 1])
    /\ [](HasReturned => /\ runs[1].emptyPages = 10
                         /\ runs[1].page >= 10)
    /\ ExhaustibleRun ~> HasReturned

\* the run against the feed with a clip on every page has requested more
\* than 10 pages and is awaiting the next
C20_Witness ==
    /\ EndlessRun
    /\ runs[1].page > 10
    /\ runs[1].status = "fetching"
    /\ runs[1].reqLog[Len(runs[1].reqLog)] = runs[1].page

----------------------------------------------------------------------------
(* Hook: errors *)

HookRuns == {r \in 1..Len(runs) : runs[r].caller = "hook"}

\* run r ends with an exception in this step
FailsNow(r) == runs[r].status = "fetching" /\ runs'[r].status = "rejected"

\* this step starts a load that reaches the collector
LoadStarts == Len(loads') = Len(loads) + 1 /\ loads'[Len(loads')].run # 0

\* C21: an exception during a collection run of the hook reaches loadSongs
\* once and becomes a user-visible error: the step in which the run fails
\* sets the error state to a message and isLoading to FALSE, every load has
\* set the error as many times as its run has failed (once or never), the
\* error becomes a message in no other step, and the start of a later load
\* sets it back to null.
C21_ErrorOncePerFailedRun ==
    [][ /\ \A r \in HookRuns :
               FailsNow(r) => /\ error' \in {"Failed to fetch", "Unexpected token"}
                              /\ isLoading' = FALSE
        /\ \A l \in 1..Len(loads') :
               loads'[l].errors =
                   IF loads'[l].run # 0 /\ runs'[loads'[l].run].status = "rejected"
                   THEN 1 ELSE 0
        /\ (error' # error /\ error' # "null") => \E r \in HookRuns : FailsNow(r)
        /\ LoadStarts => error' = "null" /\ isLoading' = TRUE ]_vars

\* the run of the first load has failed, and a later load has started and
\* has cleared the error
C21_Witness ==
    /\ Len(loads) >= 2
    /\ loads[1].run # 0
    /\ runs[loads[1].run].status = "rejected"
    /\ loads[1].errors = 1
    /\ loads[2].run # 0
    /\ runs[loads[2].run].status = "fetching"
    /\ runs[loads[1].run].finishedAt <= loads[2].at
    /\ error = "null"
    /\ isLoading

----------------------------------------------------------------------------
(* Similarity: a word that occurs again in the query *)

BothReturned == Len(output) = 2

\* the words of the query that are words of the lyrics
FoundWords == {w \in RepeatWords : w \in LyricsWordSet(input)}

\* how often the words of the query that are in the lyrics occur in it
FoundOccurrences ==
    Cardinality({i \in 1..Len(input.words) : input.words[i] \in FoundWords})

DistinctWords == {input.words[i] : i \in 1..Len(input.words)}

\* neither the query nor the query without repetitions is a substring of
\* the lyrics, and the lyrics are not empty
NeitherIsSubstring ==
    /\ normalize(input.lyrics) # <<>>
    /\ ~QueryIsSubstring([lyrics |-> input.lyrics,
                          query |-> JoinWords(input.words)])
    /\ ~QueryIsSubstring([lyrics |-> input.lyrics,
                          query |-> JoinWords(WithoutRepeats(input.words))])

\* C22 as claimed: a word that occurs several times in the query counts
\* once, so calculateSimilarity(lyrics, "w w x") equals
\* calculateSimilarity(lyrics, "w x") whenever neither is a substring of the
\* lyrics.
C22_RepeatedWordCountsOnce ==
    (BothReturned /\ NeitherIsSubstring) => output[1] = output[2]

\* C22: a word that occurs several times in the query counts once for each
\* occurrence, in the match count and in the denominator: when neither
\* query is a substring of the lyrics, the score is 0.9 if every word is in
\* the lyrics and else occurrences found / occurrences, 2/3 for "w w x" with
\* only w in the lyrics, where "w x" scores 1/2.
C22_RepeatedWordCountsEachTime ==
    (BothReturned /\ NeitherIsSubstring) =>
        /\ IF FoundOccurrences = Len(input.words)
           THEN 10 * output[1] = 9 * ScoreScale
           ELSE output[1] * Len(input.words) = FoundOccurrences * ScoreScale
        /\ IF DistinctWords \subseteq FoundWords
           THEN 10 * output[2] = 9 * ScoreScale
           ELSE output[2] * Cardinality(DistinctWords)
                    = Cardinality(DistinctWords \cap FoundWords) * ScoreScale
        /\ (input.words = <<<<"a">>, <<"a">>, <<"b">>>> /\ FoundWords = {<<"a">>})
               => 3 * output[1] = 2 * ScoreScale /\ 2 * output[2] = ScoreScale

\* "a a b" against lyrics that have the word a and not b: 2/3, and "a b": 1/2
C22_Witness ==
    /\ BothReturned
    /\ NeitherIsSubstring
    /\ input.words = <<<<"a">>, <<"a">>, <<"b">>>>
    /\ FoundWords = {<<"a">>}
    /\ output[1] # output[2]

----------------------------------------------------------------------------
(* Similarity: normalize *)

\* the normalization in the specified order: lowercase, collapse whitespace
\* runs, strip what is neither a word character nor a space, trim
SpecifiedNormalization(str) ==
    Trim(RemoveFormatting(CollapseWhitespace(ToLowerCase(str))))

StartsOrEndsWithSpace(s) == s # <<>> /\ (s[1] = " " \/ s[Len(s)] = " ")

HasTwoSpaces(s) == \E i \in 1..(Len(s) - 1) : s[i] = " " /\ s[i + 1] = " "

\* C23: normalize gives the output of the specified normalization, and its
\* output never starts or ends with a space and never has two consecutive
\* spaces.
C23_NormalizeAsSpecified ==
    Returned =>
        /\ Value = SpecifiedNormalization(input.str)
        /\ ~StartsOrEndsWithSpace(Value)
        /\ ~HasTwoSpaces(Value)

----------------------------------------------------------------------------
(* Ranking: the range of the scores *)

\* normalize leaves nothing of the string
NormalizesToNothing(str) == \A i \in 1..Len(str) : str[i] \in {" ", "\t", "!"}

\* C24: every score calculateSimilarity gives a song of the corpus lies in
\* [0, 1] and is 0 when the normalized lyrics or the normalized query are
\* empty, and every matchScore of the result lies in (0, 1].
C24_ScoresInRange ==
    Returned =>
        /\ \A i \in 1..Len(input.songs) :
               /\ ScoreOf(input.songs[i]) \in 0..ScoreScale
               /\ (\/ NormalizesToNothing(input.songs[i].lyrics)
                   \/ NormalizesToNothing(input.query))
                      => ScoreOf(input.songs[i]) = 0
        /\ \A k \in 1..Len(Value) : Value[k].matchScore \in 1..ScoreScale

\* the corpus has lyrics of which nothing is left, the result has an entry
\* of score 1.0 and one of score 0.5, and none for the empty lyrics
C24_Witness ==
    /\ Returned
    /\ \E i \in 1..Len(input.songs) :
           /\ NormalizesToNothing(input.songs[i].lyrics)
           /\ ~InResult(i)
    /\ \E k \in 1..Len(Value) : Value[k].matchScore = ScoreScale
    /\ \E k \in 1..Len(Value) : 2 * Value[k].matchScore = ScoreScale

----------------------------------------------------------------------------
(* Collector: the song made of a clip *)

\* the field holds a value: it is neither missing nor the empty string
Present(v) == v # "undefined" /\ v # ""

PromptOf(clip) ==
    IF clip.metadata.missing THEN "undefined" ELSE clip.metadata.prompt

DescriptionOf(clip) ==
    IF clip.metadata.missing THEN "undefined"
    ELSE clip.metadata.gpt_description_prompt

\* C25: the song of a clip has the clip's id; the clip's title, or
\* "Untitled" when the title is missing or empty; as lyrics the prompt if
\* non-empty, else the generated description if non-empty, else the empty
\* string; as imageUrl the large image when there is one, else the standard
\* image; and matchScore 0.  On id, title and matchScore it is the song the
\* collector stores.
C25_ClipFieldsDefaulted ==
    Returned =>
        LET clip == input.clip IN
        /\ Value.id = clip.id
        /\ Value.title = IF Present(clip.title) THEN clip.title ELSE "Untitled"
        /\ Value.lyrics =
               CASE Present(PromptOf(clip))      -> PromptOf(clip)
                 [] ~Present(PromptOf(clip)) /\ Present(DescriptionOf(clip))
                                                 -> DescriptionOf(clip)
                 [] OTHER                        -> ""
        /\ Value.imageUrl = IF Present(clip.image_large_url)
                            THEN clip.image_large_url ELSE clip.image_url
        /\ Value.matchScore = 0
        /\ Present(clip.title) =>
               [id |-> Value.id, title |-> Value.title,
                matchScore |-> Value.matchScore]
                   = mapClipToSong([id |-> clip.id, title |-> clip.title])

\* a clip without a title, with an empty prompt and a generated description,
\* and with both images
C25_Witness ==
    /\ Returned
    /\ input.clip.title = "undefined"
    /\ ~input.clip.metadata.missing
    /\ input.clip.metadata.prompt = ""
    /\ input.clip.metadata.gpt_description_prompt = "g"
    /\ input.clip.image_large_url = "large"
    /\ input.clip.image_url = "img"
    /\ Value.title = "Untitled"
    /\ Value.lyrics = "g"
    /\ Value.imageUrl = "large"

----------------------------------------------------------------------------
(* Hook: the debounce *)

\* a username of which trim() leaves nothing
Blank(name) == name \in {<<>>, <<" ">>}

LoadsOf(c) == {l \in 1..Len(loads) : loads[l].change = c}

\* C26: loadSongs is called for a username only when the username has been
\* unchanged for 500 ms: every load is that of a value of the username that
\* was set at least 500 ms before and that no later value followed within
\* those 500 ms, no value has two loads, and the last value has exactly one
\* once its timer is no longer pending; the load starts a collection run
\* unless the username is blank.
C26_RunsAfterDebounce ==
    /\ \A l \in 1..Len(loads) :
           LET c == loads[l].change IN
           /\ c \in 1..Len(changes)
           /\ loads[l].username =
                  IF Blank(changes[c].username) THEN <<>> ELSE changes[c].username
           /\ loads[l].at >= changes[c].at + 500
           /\ \A later \in (c + 1)..Len(changes) :
                  changes[later].at >= changes[c].at + 500
           /\ loads[l].run # 0 <=> ~Blank(changes[c].username)
    /\ \A c \in 1..Len(changes) : Cardinality(LoadsOf(c)) <= 1
    /\ \A r \in HookRuns : \E l \in 1..Len(loads) : loads[l].run = r
    /\ changes[Len(changes)].username = username
    /\ IF timer = -1
       THEN username # <<>> => Cardinality(LoadsOf(Len(changes))) = 1
       ELSE /\ LoadsOf(Len(changes)) = {}
            /\ timer = changes[Len(changes)].at + 500

\* the username was changed 499 ms after it had been set, no run was
\* started for the first value, and one was for the second
C26_Witness ==
    /\ Len(changes) >= 2
    /\ ~Blank(changes[1].username)
    /\ ~Blank(changes[2].username)
    /\ changes[2].at - changes[1].at = 499
    /\ LoadsOf(1) = {}
    /\ \E l \in LoadsOf(2) :
           /\ loads[l].run # 0
           /\ runs[loads[l].run].username = changes[2].username
           /\ loads[l].at = changes[2].at + 500

----------------------------------------------------------------------------
(* Hook: a run that a newer run has followed *)

\* the awaited request of the run is that of its current page
AwaitsPage(run) == run.reqLog[Len(run.reqLog)] = run.page

\* C27: a change of the username, and the start of a newer run, leave every
\* run in flight as it is, still awaiting its next page; and whatever runs
\* were started after it, each snapshot of a run and its final corpus are
\* written to the songs state.
C27_OlderRunIsNotCancelled ==
    [][ /\ (username' # username \/ Len(runs') > Len(runs)) =>
               \A r \in 1..Len(runs) : runs'[r] = runs[r]
        /\ \A r \in HookRuns :
               /\ runs'[r].status = "fetching" => AwaitsPage(runs'[r])
               /\ runs'[r].progress > runs[r].progress =>
                      songs' = runs'[r].lastProgress
               /\ (runs[r].status = "fetching" /\ runs'[r].status = "returned")
                      => songs' = runs'[r].result ]_vars

\* two runs for different artists: the newer has delivered a snapshot, and
\* after that the older, still collecting, has written one of its own
C27_Witness ==
    /\ Len(loads) = 2
    /\ loads[1].run # 0
    /\ loads[2].run # 0
    /\ loads[1].username # loads[2].username
    /\ runs[loads[1].run].status = "fetching"
    /\ runs[loads[2].run].progress > 0
    /\ loads[2].wrote > 0
    /\ loads[1].wrote > loads[2].wrote
    /\ username = <<"x">>
    /\ runs[loads[1].run].username = <<"d">>
    /\ songs = runs[loads[1].run].lastProgress

----------------------------------------------------------------------------
(* Hook: the songs displayed when the artist changes *)

\* C28 as claimed: as soon as the username changes to a different artist,
\* the songs of the previous artist are cleared.
C28_ChangeClearsSongs ==
    [][username' # username => songs' = <<>>]_vars

\* C28: a change of the username to another artist leaves the songs of the
\* previous artist displayed, and so does the start of the load for the new
\* artist 500 ms later: they stay until a run writes a snapshot or its
\* corpus.  The songs are cleared at once only when the username becomes
\* empty, and when the load of a blank username starts.
C28_ChangeKeepsSongs ==
    [][ /\ username' # username =>
               songs' = IF username' = <<>> THEN <<>> ELSE songs
        /\ Len(loads') > Len(loads) =>
               songs' = IF loads'[Len(loads')].run = 0 THEN <<>> ELSE songs
        /\ songs' # songs =>
               \/ username' = <<>> /\ username # <<>>
               \/ Len(loads') > Len(loads) /\ loads'[Len(loads')].run = 0
               \/ \E r \in HookRuns : runs'[r] # runs[r] ]_vars

\* the songs of "d" are displayed while the username is "x" and the run
\* for "x" has not delivered anything yet
C28_Witness ==
    /\ username = <<"x">>
    /\ Len(loads) = 2
    /\ loads[1].run # 0
    /\ loads[2].run # 0
    /\ runs[loads[1].run].username = <<"d">>
    /\ runs[loads[1].run].status = "returned"
    /\ runs[loads[2].run].username = <<"x">>
    /\ runs[loads[2].run].status = "fetching"
    /\ loads[2].wrote = 0
    /\ songs # <<>>
    /\ songs = runs[loads[1].run].result

----------------------------------------------------------------------------
(* Collector: the corpus grows by appending *)

IdsOf(songList) == [i \in 1..Len(songList) |-> songList[i].id]

IsPrefix(a, b) == Len(a) <= Len(b) /\ \A i \in 1..Len(a) : a[i] = b[i]

\* C29: the ids of the array passed to onProgress begin with the ids of the
\* array passed to the call before, in the same order, and the array
\* returned has the ids of the last snapshot, in the same order, and no
\* other.
C29_CorpusGrowsByAppending ==
    [][ \A r \in 1..Len(runs) :
            /\ (runs[r].progress > 0 /\ runs'[r].progress > runs[r].progress) =>
                   IsPrefix(IdsOf(runs[r].lastProgress),
                            IdsOf(runs'[r].lastProgress))
            /\ (/\ runs[r].status = "fetching"
                /\ runs'[r].status = "returned"
                /\ runs[r].progress > 0) =>
                   /\ runs'[r].progress = runs[r].progress
                   /\ IdsOf(runs'[r].result) = IdsOf(runs[r].lastProgress) ]_vars

\* the run has returned two songs after two snapshots, the second of which
\* came with a page that repeated the id of the first song under a new title
C29_Witness ==
    \E r \in 1..Len(runs) :
        /\ runs[r].status = "returned"
        /\ runs[r].progress = 2
        /\ IdsOf(runs[r].result) = <<"a", "b">>
        /\ runs[r].result[1].title = "t2"
        /\ runs[r].lastProgress = runs[r].result

----------------------------------------------------------------------------
(* Ranking: purity *)

----------------------------------------------------------------------------
(* Blank queries and empty corpora in useSongSearch, checked under
   SpecSearch *)

BlankOrEmpty == Trim(deferredSearchQuery) = <<>> \/ Len(songs) = 0

\* C31 as stated: the published result of useSongSearch is empty whenever
\* the deferred query is blank or songs is empty.
C31_PublishedEmptyAsStated == BlankOrEmpty => searchResults = <<>>

\* C31: a blank query, an empty corpus or a query that matches no song gives
\* the empty list from calculateResults; in useSongSearch the memoized
\* result is empty whenever the deferred query is blank or songs is empty,
\* and the published searchResults is empty in that case once the effect has
\* run and no transition update is waiting to be rendered.
C31_EmptyWhenBlankOrEmpty ==
    /\ \A songList \in SearchCorpora :
          /\ calculateResults(<<>>, songList) = <<>>
          /\ calculateResults(<<" ">>, songList) = <<>>
    /\ \A query \in SearchQueries : calculateResults(query, <<>>) = <<>>
    /\ calculateResults(<<"b">>, << SongAt(1, <<"a">>) >>) = <<>>
    /\ BlankOrEmpty => memoizedResults = <<>>
    /\ (BlankOrEmpty /\ ~effectPending /\ transitionQueue = <<>>
            /\ deferredSearchQuery = searchQuery)
          => searchResults = <<>>

C31_Witness ==
    /\ Len(songs) = 0
    /\ deferredSearchQuery # <<>>
    /\ ~effectPending
    /\ transitionQueue = <<>>
    /\ deferredSearchQuery = searchQuery
    /\ searchResults = <<>>
    /\ events >= 3

----------------------------------------------------------------------------
(* What the cache holds, checked under SpecService *)

\* the run the call that wrote the record awaited
WriterOf(rec) == runs[calls[rec.by].run]

BecomesReturned(r) ==
    /\ runs[r].status = "fetching"
    /\ runs'[r].status = "returned"

\* C32: the cache is written only when a collection run completes: a record
\* appears or changes only in the step in which a run for its key returns,
\* and at every moment each record's songs are the corpus a returned run for
\* its key returned and its timestamp is the time that run returned; no
\* snapshot of a run still fetching is stored.
C32_CacheHoldsCompletedRuns ==
    /\ [](\A rec \in cache :
            /\ WriterOf(rec).status = "returned"
            /\ WriterOf(rec).username = rec.key
            /\ rec.songs = WriterOf(rec).result
            /\ rec.timestamp = WriterOf(rec).finishedAt)
    /\ [][\A rec \in cache' \ cache :
            \E r \in 1..Len(runs) :
                /\ BecomesReturned(r)
                /\ runs'[r].username = rec.key
                /\ rec.songs = runs'[r].result
                /\ rec.timestamp = now]_vars

C32_Witness ==
    /\ \E rec \in cache : rec.songs # <<>>
    /\ \E r \in 1..Len(runs) :
          /\ runs[r].status = "fetching"
          /\ runs[r].progress > 0
          /\ runs[r].lastProgress # <<>>
          /\ ~CacheHas(cache, runs[r].username)

----------------------------------------------------------------------------
(* Overlapping runs of useSunoSongs, checked under SpecHook *)

LastLoad == loads[Len(loads)]

\* every run the hook started has returned, the debounce timer is not
\* pending, and the username last set has been loaded
HookSettled ==
    /\ timer = -1
    /\ loads # <<>>
    /\ LastLoad.change = Len(changes)
    /\ LastLoad.run # 0
    /\ \A r \in 1..Len(runs) : runs[r].status = "returned"

\* C33 as stated: once every run has completed and the username no longer
\* changes, the displayed songs are the corpus the run of the username
\* requested last returned.
C33_LatestUsernameDisplayed ==
    HookSettled => songs = runs[LastLoad.run].result

\* C34 as stated: isLoading is true exactly while a run the hook started is
\* still in flight.
C34_LoadingWhileInFlight ==
    isLoading <=> (\E r \in InFlight : runs[r].caller = "hook")

----------------------------------------------------------------------------
(* After clearSearch, checked under SpecSearch *)

\* C35 as stated: after clearSearch, searchResults stays empty until
\* setSearchQuery is next called with a non-blank query, whatever the
\* deferred query is and whatever songs arrive.
C35_EmptyAfterClear == sinceClear => searchResults = <<>>

----------------------------------------------------------------------------
(* Collector: pages that add nothing, checked under SpecFeed *)

\* the page processed in this step delivered clips
DataPageNow(r) ==
    /\ r <= Len(runs')
    /\ runs'[r].dataPages = runs[r].dataPages + 1

\* C36: a page with clips sets the counter of consecutive empty pages to 0
\* and the run goes on, also when the page leaves the corpus as it was (its
\* clips have no id or repeat what was collected); so a run that has been
\* answered with nothing but pages with clips is still collecting, however
\* few songs they brought.
C36_NonEmptyPageResetsCounter ==
    /\ [][\A r \in 1..Len(runs) :
            DataPageNow(r) =>
                /\ runs'[r].emptyPages = 0
                /\ runs'[r].status = "fetching"
                /\ runs'[r].page = runs[r].page + 1]_vars
    /\ [](\A r \in 1..Len(runs) :
            runs[r].dataPages = runs[r].processed =>
                /\ runs[r].emptyPages = 0
                /\ runs[r].status = "fetching")

\* more than 10 pages with clips in a row, of which none has added a song
C36_Witness ==
    /\ Len(runs) = 1
    /\ runs[1].dataPages = runs[1].processed
    /\ runs[1].processed > MAX_CONSECUTIVE_EMPTY_PAGES
    /\ runs[1].songsMap = <<>>
    /\ runs[1].status = "fetching"

----------------------------------------------------------------------------
(* The three rankings, checked under SpecWorker *)

\* C37: useSongSearch.calculateResults, searchService.searchSongs and the
\* 'calculate' handler of the similarity worker give the same list for the
\* same query and corpus: whatever the worker posts is what each of the two
\* functions returns, the blank query, the empty corpus and corpora with
\* more than 10 matches included.
C37_SameRanking ==
    /\ calculateResults(input.query, input.songs)
           = searchSongs(input.query, input.songs)
    /\ Len(output) = 2 => output[1] = output[2]
    /\ Len(output) = 3 =>
           /\ output[3] = output[1]
           /\ output[3] = output[2]
           /\ output[3] = calculateResults(input.query, input.songs)
           /\ output[3] = searchSongs(input.query, input.songs)

\* more than 10 songs match and all three have returned the same 10
C37_Witness ==
    /\ Len(output) = 3
    /\ Cardinality(Matches) > 10
    /\ Len(output[3]) = 10
    /\ output[1] = output[3]
    /\ output[3][1].matchScore > output[3][10].matchScore

----------------------------------------------------------------------------
(* useModal: the delayed reset, checked under SpecModal *)

\* C38 as stated: whenever the modal is open after a call of open, its data
\* is the value the last call of open was passed.
C38_OpenModalHasItsData == isOpen => data = lastOpen

----------------------------------------------------------------------------
(* Blank usernames, checked under SpecBlank *)

\* this step is a call of the inner loadSongs of the hook
IsLoadStep == Len(loads') = Len(loads) + 1

\* C39: a blank username causes no request and no cache write.  A call of
\* fetchUserSongs with an empty or whitespace-only username resolves at once
\* with the empty array, starts no run, never calls onProgress and leaves
\* the cache as it is, and no record or run ever has the empty key; a call
\* of loadSongs with such a username sets songs to empty and error to null,
\* starts no run and leaves isLoading as it is.
C39_BlankUsernameDoesNothing ==
    /\ [][(IsCallStep /\ Trim(NewestCall.username) = <<>>) =>
            /\ NewestCall.status = "resolved"
            /\ NewestCall.result = <<>>
            /\ NewestCall.run = 0
            /\ NewestCall.progress = 0
            /\ runs' = runs
            /\ cache' = cache]_vars
    /\ [][(IsLoadStep /\ Trim(username) = <<>>) =>
            /\ songs' = <<>>
            /\ error' = "null"
            /\ runs' = runs
            /\ isLoading' = isLoading
            /\ loads'[Len(loads')].run = 0]_vars
    /\ [](/\ \A rec \in cache : rec.key # <<>>
          /\ \A r \in 1..Len(runs) : runs[r].username # <<>>
          /\ \A c \in 1..Len(calls) :
                Trim(calls[c].username) = <<>> =>
                    /\ calls[c].status = "resolved"
                    /\ calls[c].result = <<>>
                    /\ calls[c].progress = 0
                    /\ calls[c].run = 0)

\* loadSongs was called with a username of spaces while the run of the
\* username before it was collecting, and fetchUserSongs was called with a
\* whitespace-only username and an onProgress callback
C39_Witness ==
    /\ loads # <<>>
    /\ loads[Len(loads)].run = 0
    /\ username = <<" ">>
    /\ songs = <<>>
    /\ isLoading
    /\ \E r \in InFlight : runs[r].caller = "hook" /\ runs[r].songsMap # <<>>
    /\ \E c \in 1..Len(calls) :
          /\ calls[c].username = <<" ", "\t">>
          /\ calls[c].hasProgress
          /\ calls[c].status = "resolved"
=============================================================================
